---- MODULE Spec2Model ----
(***************************************************************************)
(* Chat-based BRD editing (src/lambda_chat_package/lambda_brd_chat.py):    *)
(* section resolution, patching, context derivation from the conversation  *)
(* log and the document fallback chain.                                    *)
(*                                                                         *)
(* Text is modelled as sequences of one-character strings, so lower-casing *)
(* prefix stripping and containment are computed, not assumed.             *)
(***************************************************************************)
EXTENDS Integers, Sequences, FiniteSets, TLC

VARIABLES
    brd_data,      \* the Document handed to the section operations: Seq of [title, content]
    call,          \* the last section operation called, with its arguments and the Document before it
    ret,           \* what that operation returned
    s3,            \* the stored document: brd_structure.json and the rendered text
    log,           \* the conversation log of the session, oldest event first
    req,           \* the last send_message request, with its environment and its outcome
    inflight       \* the send_message requests in progress at the same time, each with its own copy of the Document

vars == <<brd_data, call, ret, s3, log, req, inflight>>

(***************************************************************************)
(* Bounds of the model.                                                    *)
(***************************************************************************)
MaxSections == 3
\* events in the log (two per answered request) in Spec and in SpecSession
MaxLog == 2
MaxSessionLog == 6

(***************************************************************************)
(* Characters and the string functions of Python the code relies on.       *)
(***************************************************************************)
UpperSeq == <<"A","B","C","D","E","F","G","H","I","J","K","L","M",
              "N","O","P","Q","R","S","T","U","V","W","X","Y","Z">>
LowerSeq == <<"a","b","c","d","e","f","g","h","i","j","k","l","m",
              "n","o","p","q","r","s","t","u","v","w","x","y","z">>
Digits == {"0","1","2","3","4","5","6","7","8","9"}
Whitespace == {" ", "\t", "\n", "\r"}
WordChars == {UpperSeq[i] : i \in DOMAIN UpperSeq} \cup {LowerSeq[i] : i \in DOMAIN LowerSeq}
             \cup Digits \cup {"_"}

\* str.lower() on one character
UpperSet == {UpperSeq[i] : i \in DOMAIN UpperSeq}
LowerMap == [c \in UpperSet |-> LowerSeq[CHOOSE i \in DOMAIN UpperSeq : UpperSeq[i] = c]]
LowerChar(c) == IF c \in UpperSet THEN LowerMap[c] ELSE c

\* str.lower()
Lower(s) == [i \in 1..Len(s) |-> LowerChar(s[i])]

\* str.lstrip() / str.rstrip() / str.strip()
LStrip(s) ==
    LET k == CHOOSE k \in 0..Len(s) :
                 /\ \A i \in 1..k : s[i] \in Whitespace
                 /\ (k = Len(s) \/ s[k+1] \notin Whitespace)
    IN SubSeq(s, k+1, Len(s))
RStrip(s) ==
    LET k == CHOOSE k \in 0..Len(s) :
                 /\ \A i \in (k+1)..Len(s) : s[i] \in Whitespace
                 /\ (k = 0 \/ s[k] \notin Whitespace)
    IN SubSeq(s, 1, k)
Strip(s) == LStrip(RStrip(s))

\* number of leading decimal digits of s
LeadDigits(s) ==
    CHOOSE k \in 0..Len(s) :
        /\ \A i \in 1..k : s[i] \in Digits
        /\ (k = Len(s) \/ s[k+1] \notin Digits)

\* re.match(r'^\d+\.', s)
MatchesNumbered(s) ==
    LET k == LeadDigits(s) IN k >= 1 /\ k < Len(s) /\ s[k+1] = "."

\* re.sub(r'^\d+\.\s*', '', s)
SubNumPrefix(s) ==
    IF MatchesNumbered(s)
    THEN LStrip(SubSeq(s, LeadDigits(s) + 2, Len(s)))
    ELSE s

\* re.sub(r'^\d+\.\s*', '', s).strip()
CleanTitle(s) == Strip(SubNumPrefix(s))

\* Python's `sub in s` on strings
Contains(sub, s) ==
    \E i \in 0..(Len(s) - Len(sub)) : SubSeq(s, i+1, i+Len(sub)) = sub

\* set(re.findall(r'\b\w+\b', s)): the maximal runs of word characters
WordsOf(s) ==
    LET starts == { i \in 1..Len(s) : s[i] \in WordChars /\ (i = 1 \/ s[i-1] \notin WordChars) }
        end_of(i) == CHOOSE j \in i..Len(s) :
                        /\ \A k \in i..j : s[k] \in WordChars
                        /\ (j = Len(s) \/ s[j+1] \notin WordChars)
    IN { SubSeq(s, i, end_of(i)) : i \in starts }

\* int(text) of Python for the texts the model uses: optional surrounding
\* whitespace around decimal digits; anything else raises ValueError
IsIntText(s) ==
    LET t == Strip(s) IN Len(t) >= 1 /\ \A i \in 1..Len(t) : t[i] \in Digits
DigitVal(c) ==
    CASE c = "0" -> 0 [] c = "1" -> 1 [] c = "2" -> 2 [] c = "3" -> 3 [] c = "4" -> 4
      [] c = "5" -> 5 [] c = "6" -> 6 [] c = "7" -> 7 [] c = "8" -> 8 [] c = "9" -> 9
RECURSIVE DigitsVal(_)
DigitsVal(t) ==
    IF Len(t) = 0 THEN 0
    ELSE 10 * DigitsVal(SubSeq(t, 1, Len(t) - 1)) + DigitVal(t[Len(t)])
IntOf(s) == DigitsVal(Strip(s))

\* str(n) for the small non-negative integers the model formats
DigitSeq == <<"0","1","2","3","4","5","6","7","8","9">>
RECURSIVE IntText(_)
IntText(n) ==
    IF n < 10 THEN <<DigitSeq[n + 1]>>
    ELSE IntText(n \div 10) \o <<DigitSeq[(n % 10) + 1]>>

\* str.upper() on one character
UpperMap == [c \in {LowerSeq[i] : i \in DOMAIN LowerSeq} |->
                UpperSeq[CHOOSE i \in DOMAIN LowerSeq : LowerSeq[i] = c]]
UpperChar(c) == IF c \in DOMAIN UpperMap THEN UpperMap[c] ELSE c

\* str.startswith
StartsWith(s, prefix) ==
    Len(prefix) <= Len(s) /\ SubSeq(s, 1, Len(prefix)) = prefix

\* sep.join(parts)
RECURSIVE Join(_, _)
Join(parts, sep) ==
    IF Len(parts) = 0 THEN <<>>
    ELSE IF Len(parts) = 1 THEN parts[1]
    ELSE parts[1] \o sep \o Join(Tail(parts), sep)

\* s.split('\n')
RECURSIVE SplitLines(_)
SplitLines(s) ==
    IF \A i \in 1..Len(s) : s[i] # "\n" THEN <<s>>
    ELSE LET k == CHOOSE k \in 1..Len(s) :
                     s[k] = "\n" /\ \A i \in 1..(k - 1) : s[i] # "\n"
         IN <<SubSeq(s, 1, k - 1)>> \o SplitLines(SubSeq(s, k + 1, Len(s)))

(***************************************************************************)
(* Regular expressions of Python's re module, as the backtracking matcher  *)
(* it is: alternatives and repetitions are tried in priority order, the    *)
(* first way that lets the rest of the pattern match is the match.         *)
(* Positions count the characters consumed (0 = before the first one).     *)
(***************************************************************************)
Unbounded == 0 - 1
MaxGroups == 3
Letters == {UpperSeq[i] : i \in DOMAIN UpperSeq} \cup {LowerSeq[i] : i \in DOMAIN LowerSeq}

Set(chars) == [op |-> "set", chars |-> chars, neg |-> FALSE]
NotSet(chars) == [op |-> "set", chars |-> chars, neg |-> TRUE]
Dot == [op |-> "dot"]
Lit(seq) == [op |-> "lit", seq |-> seq]
Alt(alts) == [op |-> "alt", alts |-> alts]
Rep(body, min, max, greedy) ==
    [op |-> "rep", body |-> body, min |-> min, max |-> max, greedy |-> greedy]
Group(k, body) == [op |-> "group", k |-> k, body |-> body]
Bol == [op |-> "bol"]
Eol == [op |-> "eol"]
WordBoundary == [op |-> "wordb"]

Plus(node) == Rep(<<node>>, 1, Unbounded, TRUE)
Star(node) == Rep(<<node>>, 0, Unbounded, TRUE)
LazyPlus(node) == Rep(<<node>>, 1, Unbounded, FALSE)
LazyStar(node) == Rep(<<node>>, 0, Unbounded, FALSE)
Opt(body) == Rep(body, 0, 1, TRUE)
Spaces == Plus(Set(Whitespace))
OptSpaces == Star(Set(Whitespace))
Number == Plus(Set(Digits))

Flags(ic, dotall, multiline) == [ic |-> ic, dotall |-> dotall, multiline |-> multiline]
NoFlags == Flags(FALSE, FALSE, FALSE)
IgnoreCase == Flags(TRUE, FALSE, FALSE)
IgnoreCaseDotAll == Flags(TRUE, TRUE, FALSE)
IgnoreCaseMultiline == Flags(TRUE, FALSE, TRUE)

NoCaps == [k \in 1..MaxGroups |-> <<Unbounded, Unbounded>>]
NoMatch == [ok |-> FALSE, start |-> 0, end |-> 0, caps |-> NoCaps]

CharInSet(c, node, flags) ==
    LET in == \/ c \in node.chars
              \/ flags.ic /\ (LowerChar(c) \in node.chars \/ UpperChar(c) \in node.chars)
    IN IF node.neg THEN ~in ELSE in
LitAt(text, i, seq, flags) ==
    /\ i + Len(seq) <= Len(text)
    /\ \A j \in 1..Len(seq) :
          \/ text[i + j] = seq[j]
          \/ flags.ic /\ LowerChar(text[i + j]) = LowerChar(seq[j])
IsWordAt(text, i) == i >= 1 /\ i <= Len(text) /\ text[i] \in WordChars

\* a node that takes exactly one character, and whether it takes the one
\* after position i
IsCharNode(node) == node.op \in {"set", "dot"}
CharAt(text, i, node, flags) ==
    /\ i < Len(text)
    /\ IF node.op = "dot" THEN flags.dotall \/ text[i + 1] # "\n"
       ELSE CharInSet(text[i + 1], node, flags)
\* the longest run of characters after position i that the node takes, no
\* longer than max
Run(text, i, node, max, flags) ==
    LET most == IF max = Unbounded \/ max > Len(text) - i THEN Len(text) - i ELSE max IN
    CHOOSE k \in 0..most :
        /\ (k = most \/ ~CharAt(text, i + k, node, flags))
        /\ \A j \in 0..(k - 1) : CharAt(text, i + j, node, flags)

\* the first of two tries that matches: Python's re backtracks into the
\* second only when the first fails
first_match(first, second) == IF first.ok THEN first ELSE second
\* the two ways on at a repetition, in the order its greed tries them
rep_order(node, again, leave) ==
    IF node.min > 0 THEN again
    ELSE IF node.max = 0 THEN leave
    ELSE IF node.greedy THEN first_match(again, leave)
    ELSE first_match(leave, again)

\* re_match_at: the match of the node sequence at position i, by backtracking
\* in the order of Python's re.  rep_first: the repetition of a one-character
\* node, whose lengths are tried longest first (greedy) or shortest first;
\* the tries lo..hi are made in order, by halves
RECURSIVE re_match_at(_, _, _, _, _), rep_first(_, _, _, _, _, _, _, _, _)
rep_first(rest, text, i, caps, flags, node, run, lo, hi) ==
    IF lo = hi
    THEN re_match_at(rest, text, i + (IF node.greedy THEN run - lo ELSE node.min + lo),
                     caps, flags)
    ELSE first_match(rep_first(rest, text, i, caps, flags, node, run, lo, (lo + hi) \div 2),
                     rep_first(rest, text, i, caps, flags, node, run,
                               ((lo + hi) \div 2) + 1, hi))
rep_run(rest, text, i, caps, flags, node, run) ==
    IF run < node.min THEN NoMatch
    ELSE rep_first(rest, text, i, caps, flags, node, run, 0, run - node.min)
re_match_at(nodes, text, i, caps, flags) ==
    IF Len(nodes) = 0 THEN [ok |-> TRUE, start |-> 0, end |-> i, caps |-> caps]
    ELSE
    LET node == Head(nodes)
        rest == Tail(nodes)
        next == IF IsCharNode(node) THEN i + 1
                ELSE IF node.op = "lit" THEN i + Len(node.seq)
                ELSE i
        taken ==
            CASE IsCharNode(node) -> CharAt(text, i, node, flags)
              [] node.op = "lit" -> LitAt(text, i, node.seq, flags)
              [] node.op = "bol" -> i = 0 \/ (flags.multiline /\ text[i] = "\n")
              [] node.op = "eol" ->
                   \/ i = Len(text)
                   \/ (i = Len(text) - 1 /\ text[i + 1] = "\n")
                   \/ (flags.multiline /\ text[i + 1] = "\n")
              [] node.op = "wordb" -> IsWordAt(text, i) # IsWordAt(text, i + 1)
              [] OTHER -> TRUE
    IN
    CASE node.op \in {"set", "dot", "lit", "bol", "eol", "wordb"} ->
           IF taken THEN re_match_at(rest, text, next, caps, flags) ELSE NoMatch
      [] node.op = "alt" ->
           IF Len(node.alts) = 0 THEN NoMatch
           ELSE first_match(
                    re_match_at(Head(node.alts) \o rest, text, i, caps, flags),
                    re_match_at(<<Alt(Tail(node.alts))>> \o rest, text, i, caps, flags))
      [] node.op = "rep" /\ Len(node.body) = 1 /\ IsCharNode(node.body[1]) ->
           rep_run(rest, text, i, caps, flags, node,
                   Run(text, i, node.body[1], node.max, flags))
      [] node.op = "rep" /\ ~(Len(node.body) = 1 /\ IsCharNode(node.body[1])) ->
           rep_order(node,
               re_match_at(node.body
                             \o << Rep(node.body,
                                       IF node.min > 0 THEN node.min - 1 ELSE 0,
                                       IF node.max = Unbounded THEN Unbounded
                                       ELSE node.max - 1,
                                       node.greedy) >>
                             \o rest,
                           text, i, caps, flags),
               re_match_at(rest, text, i, caps, flags))
      [] node.op = "group" ->
           re_match_at(node.body \o <<[op |-> "close", k |-> node.k, from |-> i]>> \o rest,
                       text, i, caps, flags)
      [] node.op = "close" ->
           re_match_at(rest, text, i, [caps EXCEPT ![node.k] = <<node.from, i>>], flags)

\* re.match(pattern, text, flags)
re_match(nodes, text, flags) == re_match_at(nodes, text, 0, NoCaps, flags)

\* re.search(pattern, text, flags): the match at the leftmost start.  The
\* starts lo..hi are tried in order, by halves
match_from(m, start) == IF m.ok THEN [m EXCEPT !.start = start] ELSE NoMatch
RECURSIVE re_search_from(_, _, _, _, _)
re_search_from(nodes, text, lo, hi, flags) ==
    IF lo = hi
    THEN match_from(re_match_at(nodes, text, lo, NoCaps, flags), lo)
    ELSE first_match(re_search_from(nodes, text, lo, (lo + hi) \div 2, flags),
                     re_search_from(nodes, text, ((lo + hi) \div 2) + 1, hi, flags))
re_search(nodes, text, flags) == re_search_from(nodes, text, 0, Len(text), flags)

\* match.group(k), for a group that took part in the match
group(m, text, k) == SubSeq(text, m.caps[k][1] + 1, m.caps[k][2])
\* whether match.group(k) is not None
has_group(m, k) == m.caps[k][1] # Unbounded
\* re.sub(pattern, '', text, count=1)
cut_match(m, text) ==
    IF m.ok THEN SubSeq(text, 1, m.start) \o SubSeq(text, m.end + 1, Len(text)) ELSE text
re_sub_first(nodes, text, flags) == cut_match(re_search(nodes, text, flags), text)

(***************************************************************************)
(* The patterns of the chat handler.                                       *)
(***************************************************************************)
\* the mark that opens an update confirmation: the source spells it with the
\* three characters U+201A, U+00FA, U+00D6
CheckMark == <<"U+201A", "U+00FA", "U+00D6">>
Quotes == {"'", "\""}
LettersAndSpace == Letters \cup Whitespace

\* (?:update|modify|edit)
UpdateVerb == Alt(<< <<Lit(<<"u","p","d","a","t","e">>)>>, <<Lit(<<"m","o","d","i","f","y">>)>>, <<Lit(<<"e","d","i","t">>)>> >>)
\* (?:change|replace|update|modify|edit)
ChangeVerb ==
    Alt(<< <<Lit(<<"c","h","a","n","g","e">>)>>, <<Lit(<<"r","e","p","l","a","c","e">>)>>, <<Lit(<<"u","p","d","a","t","e">>)>>,
           <<Lit(<<"m","o","d","i","f","y">>)>>, <<Lit(<<"e","d","i","t">>)>> >>)
\* (?:update|modify|edit|change|replace)
AnyEditVerb ==
    Alt(<< <<Lit(<<"u","p","d","a","t","e">>)>>, <<Lit(<<"m","o","d","i","f","y">>)>>, <<Lit(<<"e","d","i","t">>)>>,
           <<Lit(<<"c","h","a","n","g","e">>)>>, <<Lit(<<"r","e","p","l","a","c","e">>)>> >>)
\* (?:to|with)
ToOrWith == Alt(<< <<Lit(<<"t","o">>)>>, <<Lit(<<"w","i","t","h">>)>> >>)
\* (?:section\s+)?   (?:me\s+)?   (?:in\s+)?
OptSection == Opt(<<Lit(<<"s","e","c","t","i","o","n">>), Spaces>>)
OptMe == Opt(<<Lit(<<"m","e">>), Spaces>>)
OptIn == Opt(<<Lit(<<"i","n">>), Spaces>>)

\* r'\[BRD_ID:\s*[^\]]+\]\s*'
RE_brd_id_prefix ==
    <<Lit(<<"[","B","R","D","_","I","D",":">>), OptSpaces, Plus(NotSet({"]"})), Lit(<<"]">>), OptSpaces>>
\* r'USER REQUEST:\s*(.+?)(?:\r?\n|$)'
RE_user_request ==
    <<Lit(<<"U","S","E","R"," ","R","E","Q","U","E","S","T",":">>), OptSpaces, Group(1, <<LazyPlus(Dot)>>),
      Alt(<< <<Opt(<<Lit(<<"\r">>)>>), Lit(<<"\n">>)>>, <<Eol>> >>)>>
\* r'(?:SECTION\s+)?(\d+)[:\.]\s*([^\r\n]+)?'
RE_section_in_message ==
    <<Opt(<<Lit(<<"S","E","C","T","I","O","N">>), Spaces>>), Group(1, <<Number>>), Set({":", "."}), OptSpaces,
      Opt(<<Group(2, <<Plus(NotSet({"\r", "\n"}))>>)>>)>>
\* r'##\s*(?:Section\s+)?(\d+)'
RE_hash_section ==
    <<Lit(<<"#","#">>), OptSpaces, Opt(<<Lit(<<"S","e","c","t","i","o","n">>), Spaces>>), Group(1, <<Number>>)>>
\* r'^#+\s*'
RE_hashes == <<Bol, Plus(Set({"#"})), OptSpaces>>
\* r'^\d+\.\s*'
RE_number_prefix == <<Bol, Number, Lit(<<".">>), OptSpaces>>
\* r'show\s+(?:me\s+)?(?:section\s+)?(\d+)'
RE_show_number == <<Lit(<<"s","h","o","w">>), Spaces, OptMe, OptSection, Group(1, <<Number>>)>>
\* r'show\s+(?:me\s+)?(?:section\s+)?([a-zA-Z\s]{3,})'
RE_show_title ==
    <<Lit(<<"s","h","o","w">>), Spaces, OptMe, OptSection,
      Group(1, <<Rep(<<Set(LettersAndSpace)>>, 3, Unbounded, TRUE)>>)>>
\* r'show\s+(?:me\s+)?(?:section\s+)?(.+)'
RE_show_rest == <<Lit(<<"s","h","o","w">>), Spaces, OptMe, OptSection, Group(1, <<Plus(Dot)>>)>>
\* r'section\s+(\d+)'
RE_section_number == <<Lit(<<"s","e","c","t","i","o","n">>), Spaces, Group(1, <<Number>>)>>
\* r'section\s+([a-zA-Z\s]+)'
RE_section_title == <<Lit(<<"s","e","c","t","i","o","n">>), Spaces, Group(1, <<Plus(Set(LettersAndSpace))>>)>>
\* r'^(?:##\s*)?(\d+)\.\s+([A-Z][^\n]*)'
RE_section_header ==
    <<Bol, Opt(<<Lit(<<"#","#">>), OptSpaces>>), Group(1, <<Number>>), Lit(<<".">>), Spaces,
      Group(2, <<Set(UpperSet), Star(NotSet({"\n"}))>>)>>
\* r'(\d+)\.\s+([A-Z][a-zA-Z\s]+)'
RE_number_title ==
    <<Group(1, <<Number>>), Lit(<<".">>), Spaces,
      Group(2, <<Set(UpperSet), Plus(Set(LettersAndSpace))>>)>>
\* r'(\d+)\.\s+'
RE_number_dot == <<Group(1, <<Number>>), Lit(<<".">>), Spaces>>
\* r'\b(\d{3,})\b'
RE_suspicious ==
    <<WordBoundary, Group(1, <<Rep(<<Set(Digits)>>, 3, Unbounded, TRUE)>>), WordBoundary>>
\* r'update\s+(\d+):\s*(.+)'
RE_command_update ==
    <<Lit(<<"u","p","d","a","t","e">>), Spaces, Group(1, <<Number>>), Lit(<<":">>), OptSpaces,
      Group(2, <<Plus(Dot)>>)>>
\* r"Section\s+['\"](\d+)\.\s*([^'\"]+)['\"]"
RE_confirmation ==
    <<Lit(<<"S","e","c","t","i","o","n">>), Spaces, Set(Quotes), Group(1, <<Number>>), Lit(<<".">>), OptSpaces,
      Group(2, <<Plus(NotSet(Quotes))>>), Set(Quotes)>>
\* r"Section\s+['\"](\d+)\."
RE_confirmation_number ==
    <<Lit(<<"S","e","c","t","i","o","n">>), Spaces, Set(Quotes), Group(1, <<Number>>), Lit(<<".">>)>>
\* r"Section\s+['\"](\d+)\.\s*([^'\"]+)"
RE_confirmation_open ==
    <<Lit(<<"S","e","c","t","i","o","n">>), Spaces, Set(Quotes), Group(1, <<Number>>), Lit(<<".">>), OptSpaces,
      Group(2, <<Plus(NotSet(Quotes))>>)>>
\* r'^(what|which|where|when|why|how|tell|show)\s+'
RE_question_start ==
    <<Bol, Group(1, <<Alt(<< <<Lit(<<"w","h","a","t">>)>>, <<Lit(<<"w","h","i","c","h">>)>>, <<Lit(<<"w","h","e","r","e">>)>>,
                            <<Lit(<<"w","h","e","n">>)>>, <<Lit(<<"w","h","y">>)>>, <<Lit(<<"h","o","w">>)>>,
                            <<Lit(<<"t","e","l","l">>)>>, <<Lit(<<"s","h","o","w">>)>> >>)>>), Spaces>>

\* Pattern 1: r'(?:update|modify|edit)\s+(?:section\s+)?(\d+)[:\s]+(.+)'
RE_pattern1 ==
    <<UpdateVerb, Spaces, OptSection, Group(1, <<Number>>),
      Plus(Set({":"} \cup Whitespace)), Group(2, <<Plus(Dot)>>)>>
\* Pattern 1b: r'(?:update|modify|edit)\s+section\s+([a-zA-Z\s]+?)[:\s]+(.+)'
RE_pattern1b ==
    <<UpdateVerb, Spaces, Lit(<<"s","e","c","t","i","o","n">>), Spaces,
      Group(1, <<LazyPlus(Set(LettersAndSpace))>>),
      Plus(Set({":"} \cup Whitespace)), Group(2, <<Plus(Dot)>>)>>
\* Pattern 2: r'(?:update|modify|edit)\s+(?:section\s+)?(\d+)\s+(.+)'
RE_pattern2 ==
    <<UpdateVerb, Spaces, OptSection, Group(1, <<Number>>), Spaces, Group(2, <<Plus(Dot)>>)>>
\* Pattern 2b: r'(?:update|modify|edit)\s+section\s+([a-zA-Z\s]+?)\s+(.+)'
RE_pattern2b ==
    <<UpdateVerb, Spaces, Lit(<<"s","e","c","t","i","o","n">>), Spaces,
      Group(1, <<LazyPlus(Set(LettersAndSpace))>>), Spaces, Group(2, <<Plus(Dot)>>)>>
\* Pattern 3: r'(?:update|modify|edit)\s+in\s+section\s+(\d+)\s+(.+)'
RE_pattern3 ==
    <<UpdateVerb, Spaces, Lit(<<"i","n">>), Spaces, Lit(<<"s","e","c","t","i","o","n">>), Spaces,
      Group(1, <<Number>>), Spaces, Group(2, <<Plus(Dot)>>)>>
\* Pattern 3b: r'(?:update|modify|edit)\s+in\s+section\s+([a-zA-Z\s]+?)\s+(.+)'
RE_pattern3b ==
    <<UpdateVerb, Spaces, Lit(<<"i","n">>), Spaces, Lit(<<"s","e","c","t","i","o","n">>), Spaces,
      Group(1, <<LazyPlus(Set(LettersAndSpace))>>), Spaces, Group(2, <<Plus(Dot)>>)>>
\* Pattern 4: r'(?:in\s+)?section\s+(\d+).*?(?:change|replace|update|modify|edit)\s+(.+)'
RE_pattern4 ==
    <<OptIn, Lit(<<"s","e","c","t","i","o","n">>), Spaces, Group(1, <<Number>>), LazyStar(Dot),
      ChangeVerb, Spaces, Group(2, <<Plus(Dot)>>)>>
\* Pattern 4b: r'(?:in\s+)?section\s+([a-zA-Z\s]+?).*?(?:change|replace|update|modify|edit)\s+(.+)'
RE_pattern4b ==
    <<OptIn, Lit(<<"s","e","c","t","i","o","n">>), Spaces, Group(1, <<LazyPlus(Set(LettersAndSpace))>>),
      LazyStar(Dot), ChangeVerb, Spaces, Group(2, <<Plus(Dot)>>)>>
\* Pattern 5: r'(?:change|replace|update|modify|edit)\s+(.+?)\s+(?:to|with)\s+(.+?)\s+in\s+(?:section\s+)?(\d+)'
RE_pattern5 ==
    <<ChangeVerb, Spaces, Group(1, <<LazyPlus(Dot)>>), Spaces, ToOrWith, Spaces,
      Group(2, <<LazyPlus(Dot)>>), Spaces, Lit(<<"i","n">>), Spaces, OptSection,
      Group(3, <<Number>>)>>
\* Pattern 5b: r'(?:change|replace|update|modify|edit)\s+(.+?)\s+(?:to|with)\s+(.+?)\s+in\s+section\s+([a-zA-Z\s]+)'
RE_pattern5b ==
    <<ChangeVerb, Spaces, Group(1, <<LazyPlus(Dot)>>), Spaces, ToOrWith, Spaces,
      Group(2, <<LazyPlus(Dot)>>), Spaces, Lit(<<"i","n">>), Spaces, Lit(<<"s","e","c","t","i","o",
                                                                      "n">>), Spaces,
      Group(3, <<Plus(Set(LettersAndSpace))>>)>>
\* Pattern 6: r'change\s+(.+?)\s+to\s+(.+)'
RE_change_to ==
    <<Lit(<<"c","h","a","n","g","e">>), Spaces, Group(1, <<LazyPlus(Dot)>>), Spaces, Lit(<<"t","o">>), Spaces,
      Group(2, <<Plus(Dot)>>)>>
\* Pattern 7: r'(?:in\s+)?section\s+(\d+)\s+(.+)'
RE_pattern7 ==
    <<OptIn, Lit(<<"s","e","c","t","i","o","n">>), Spaces, Group(1, <<Number>>), Spaces, Group(2, <<Plus(Dot)>>)>>
\* Pattern 7b: r'(?:update|modify|edit|change|replace)\s+(?:in\s+)?section\s+([a-zA-Z\s]{3,}?)\s+(.+)'
RE_pattern7b ==
    <<AnyEditVerb, Spaces, OptIn, Lit(<<"s","e","c","t","i","o","n">>), Spaces,
      Group(1, <<Rep(<<Set(LettersAndSpace)>>, 3, Unbounded, FALSE)>>), Spaces,
      Group(2, <<Plus(Dot)>>)>>
\* Pattern 8: r'(?:change|replace|update|modify|edit)\s+(.+?)\s+(?:to|with)\s+(.+)'
RE_change_to_with ==
    <<ChangeVerb, Spaces, Group(1, <<LazyPlus(Dot)>>), Spaces, ToOrWith, Spaces,
      Group(2, <<Plus(Dot)>>)>>
\* Pattern 8: r'(?:change|replace|update|modify|edit)\s+(.+)'
RE_change_rest == <<ChangeVerb, Spaces, Group(1, <<Plus(Dot)>>)>>

(***************************************************************************)
(* Titles, contents and generation outputs the model draws from.           *)
(***************************************************************************)
TitleShortLen == 30     \* len(first_title) < 30

T_Scope == <<"S","c","o","p","e">>
T_Goals1 == <<"1","."," ","G","o","a","l","s">>
T_Brd2 == <<"2","."," ","B","R","D">>
T_RiskPlan == <<"R","i","s","k"," ","P","l","a","n">>
\* an unnumbered title of 31 characters: "Risk Plan xxxxxxxxxxxxxxxxxxxxx"
T_Long == T_RiskPlan \o <<" ">> \o [i \in 1..21 |-> "x"]
T_goals == <<"g","o","a","l","s">>
T_Budget == <<"B","u","d","g","e","t">>

StoredTitles == {T_Scope, T_Goals1, T_Brd2, T_Long}
ReturnedTitles == {T_Scope, T_goals, T_Budget, T_RiskPlan}

Identifiers ==
    { T_goals, T_Scope,
      <<"p","l","a","n"," ","r","i","s","k">>,
      <<"m","y"," ","p","l","a","n">>,
      Lower(T_Budget), <<>>, <<"2">> }

\* the content a section holds before any patch: one paragraph naming its position
Block(type, text, items, rows) == [type |-> type, text |-> text, items |-> items, rows |-> rows]
OrigContent(i) == << Block("paragraph", <<"o","r","i","g"," ">> \o IntText(i), <<>>, <<>>) >>
\* the content the generation model returns
NewContent ==
    << Block("paragraph", <<"n","e","w"," ","t","e","x","t">>, <<>>, <<>>),
       Block("bullet", <<>>, << <<"n","e","w"," ","a">>, <<"n","e","w"," ","b">> >>, <<>>),
       Block("table", <<>>, <<>>, << << <<"h","1">>, <<"h","2">> >>, << <<"v","1">>, <<"v","2">> >> >>),
       Block("image", <<"n","e","w"," ","i","m","g">>, <<>>, <<>>) >>

InitialDocuments ==
    UNION { { [i \in 1..n |-> [title |-> t[i], content |-> OrigContent(i)]] :
                t \in [1..n -> StoredTitles] } : n \in 0..MaxSections }

\* what invoke_claude_for_chat and the parsing of its text can yield:
\*   raise     the client raised (error or empty response)
\*   no_json   the text holds no {...}
\*   bad_json  neither json.loads nor raw_decode parses it
\*   object    a JSON object, with or without the keys "title" and "content"
Gen(kind, has_title, has_content, title, content) ==
    [kind |-> kind, has_title |-> has_title, has_content |-> has_content,
     title |-> title, content |-> content]
Generations ==
    { Gen("raise", FALSE, FALSE, <<>>, <<>>),
      Gen("no_json", FALSE, FALSE, <<>>, <<>>),
      Gen("bad_json", FALSE, FALSE, <<>>, <<>>),
      Gen("object", FALSE, TRUE, <<>>, NewContent),
      Gen("object", TRUE, FALSE, T_Scope, <<>>) }
    \cup { Gen("object", TRUE, TRUE, t, NewContent) : t \in ReturnedTitles }
NotInvoked == Gen("not_invoked", FALSE, FALSE, <<>>, <<>>)

(***************************************************************************)
(* Section operations.  Array indices are zero-based as in the code:       *)
(* sections[k] of the code is sections[k + 1] here.                        *)
(***************************************************************************)
S_ai_powered == <<"a","i","-","p","o","w","e","r","e","d">>
S_brd == <<"b","r","d">>

\* the document-title heuristic shared by the section operations
has_doc_title(sections) ==
    /\ Len(sections) > 0
    /\ LET first_title == Lower(sections[1].title) IN
          \/ Contains(S_ai_powered, first_title)
          \/ Contains(S_brd, first_title)
          \/ (Len(first_title) < TitleShortLen /\ ~MatchesNumbered(first_title))

\* handle_list_sections: the numbered lines, or the empty-document message
handle_list_sections(sections) ==
    IF Len(sections) = 0
    THEN [kind |-> "no_sections", lines |-> <<>>]
    ELSE [kind |-> "list",
          lines |-> [i \in 1..Len(sections) |-> [number |-> i, title |-> sections[i].title]]]

\* the text handle_show_section appends for one content block
RECURSIVE RenderItems(_)
RenderItems(items) ==
    IF Len(items) = 0 THEN <<>>
    ELSE <<"-"," ">> \o Head(items) \o <<"\n">> \o RenderItems(Tail(items))
RECURSIVE RenderRows(_)
RenderRows(rows) ==
    IF Len(rows) = 0 THEN <<>>
    ELSE <<"|"," ">> \o Join(Head(rows), <<" ","|"," ">>) \o <<" ","|","\n">> \o RenderRows(Tail(rows))
RenderBlock(block) ==
    IF block.type = "paragraph" THEN block.text \o <<"\n","\n">>
    ELSE IF block.type = "bullet" THEN RenderItems(block.items) \o <<"\n">>
    ELSE IF block.type = "table" THEN RenderRows(block.rows) \o <<"\n">>
    ELSE << >>
RECURSIVE RenderBlocks(_)
RenderBlocks(content) ==
    IF Len(content) = 0 THEN << >>
    ELSE RenderBlock(Head(content)) \o RenderBlocks(Tail(content))

\* a resolver that forgets the pseudo-title at index 0
show_array_index_no_offset(hdt, section_number) == section_number - 1
\* array_index of handle_show_section
show_array_index(hdt, section_number) ==
    IF hdt THEN section_number ELSE section_number - 1

handle_show_section(sections, section_number) ==
    LET hdt == has_doc_title(sections)
        array_index == show_array_index(hdt, section_number)
        max_section == IF hdt THEN Len(sections) - 1 ELSE Len(sections)
    IN IF section_number < 1 \/ section_number > max_section
       THEN [kind |-> "invalid", max |-> max_section, number |-> 0,
             title |-> <<>>, body |-> <<>>]
       ELSE LET section == sections[array_index + 1] IN
            [kind |-> "section", max |-> max_section, number |-> section_number,
             title |-> CleanTitle(section.title),
             body |-> RenderBlocks(section.content)]

\* the message strings of handle_update_section, by their parts
Msg(kind, number, title, other_number, other_title) ==
    [kind |-> kind, number |-> number, title |-> title,
     other_number |-> other_number, other_title |-> other_title]
\* a failure reported after the sections were already emptied
failure_after_write(sections, message) ==
    [success |-> FALSE, message |-> message, has_updated_brd |-> FALSE,
     updated_brd |-> <<>>,
     brd_data |-> [i \in 1..Len(sections) |-> [sections[i] EXCEPT !.content = <<>>]]]
Failure(sections, message) ==
    [success |-> FALSE, message |-> message, has_updated_brd |-> FALSE,
     updated_brd |-> <<>>, brd_data |-> sections]

\* titles_match of handle_update_section
titles_match(returned_title_lower, expected_title_lower) ==
    \/ returned_title_lower = expected_title_lower
    \/ Contains(returned_title_lower, expected_title_lower)
    \/ Contains(expected_title_lower, returned_title_lower)

\* the search "for idx, sec in enumerate(sections, start=1)" after a mismatch:
\* the first idx whose cleaned lower-cased title equals the returned one, or 0
RECURSIVE find_updated_from(_, _, _)
find_updated_from(sections, returned_title_lower, idx) ==
    IF idx > Len(sections) THEN 0
    ELSE IF returned_title_lower = Lower(CleanTitle(sections[idx].title)) THEN idx
    ELSE find_updated_from(sections, returned_title_lower, idx + 1)

\* a commit that keeps the title the model returned
committed_section_model_title(expected_title_clean, gen) ==
    [title |-> CleanTitle(gen.title), content |-> gen.content]
\* updated_section once its title is overwritten with the expected one
committed_section(expected_title_clean, gen) ==
    [title |-> expected_title_clean, content |-> gen.content]

\* the part of handle_update_section after the section is retrieved (the try block)
update_retrieved(sections, section_number, array_index, full_content, gen) ==
    LET section == sections[array_index + 1]
        expected_title_clean == CleanTitle(section.title)
        returned_title_clean == CleanTitle(gen.title)
        found == find_updated_from(sections, Lower(returned_title_clean), 1)
        committed == [sections EXCEPT ![array_index + 1] =
                         committed_section(expected_title_clean, gen)]
    IN  \* the full-content prompt branch never binds section_title_clean, which
        \* the log line before the invocation reads: NameError, caught below
        IF full_content THEN Failure(sections, Msg("update_failed", 0, <<>>, 0, <<>>))
        ELSE IF gen.kind = "raise" THEN Failure(sections, Msg("update_failed", 0, <<>>, 0, <<>>))
        ELSE IF gen.kind \in {"no_json", "bad_json"}
             THEN Failure(sections, Msg("parse_failed", 0, <<>>, 0, <<>>))
        ELSE IF ~gen.has_title \/ ~gen.has_content
             THEN Failure(sections, Msg("invalid_structure", 0, <<>>, 0, <<>>))
        ELSE IF /\ ~titles_match(Lower(returned_title_clean), Lower(expected_title_clean))
                /\ found # 0
             THEN Failure(sections, Msg("wrong_section", found, returned_title_clean,
                                        section_number, expected_title_clean))
        ELSE [success |-> TRUE,
              message |-> Msg("updated", section_number, expected_title_clean, 0, <<>>),
              has_updated_brd |-> TRUE, updated_brd |-> committed, brd_data |-> committed]

\* handle_update_section(brd_data, section_number, user_instruction, history);
\* full_content: the instruction holds '##' or '**', or is structured and
\* longer than 200 characters; gen: what the generation call yields if made
handle_update_section(sections, section_number, full_content, gen) ==
    IF has_doc_title(sections)
    THEN IF section_number < 1 \/ section_number >= Len(sections)
         THEN Failure(sections, Msg("invalid", 0, <<>>, Len(sections) - 1, <<>>))
         ELSE update_retrieved(sections, section_number, section_number, full_content, gen)
    ELSE IF section_number < 1 \/ section_number > Len(sections)
         THEN Failure(sections, Msg("invalid", 0, <<>>, Len(sections), <<>>))
         ELSE update_retrieved(sections, section_number, section_number - 1, full_content, gen)

\* whether handle_update_section invokes the generation client
update_invokes_generation(sections, section_number, full_content) ==
    /\ ~full_content
    /\ IF has_doc_title(sections)
       THEN section_number >= 1 /\ section_number < Len(sections)
       ELSE section_number >= 1 /\ section_number <= Len(sections)

(***************************************************************************)
(* _find_section_by_title_or_number.  None is modelled as 0 (no section    *)
(* number is 0).                                                           *)
(***************************************************************************)
None == 0

\* the five matching rules, on the lower-cased stored title
rule_exact(title, ident) == title = ident
rule_partial(title, ident) == Contains(ident, title) \/ Contains(title, ident)
rule_cleaned(title, ident) ==
    LET title_clean == CleanTitle(title) IN
    title_clean = ident \/ Contains(ident, title_clean)
rule_keyword(title, ident) ==
    LET title_words == WordsOf(CleanTitle(title))
        identifier_words == WordsOf(ident)
    IN identifier_words # {} /\ identifier_words \subseteq title_words
rule_reverse(title, ident) ==
    LET title_words == WordsOf(CleanTitle(title)) IN
    \E tw \in title_words : Len(tw) > 3 /\ Contains(tw, ident)
title_matches(title, ident) ==
    \/ rule_exact(title, ident)
    \/ rule_partial(title, ident)
    \/ rule_cleaned(title, ident)
    \/ rule_keyword(title, ident)
    \/ rule_reverse(title, ident)

\* a numbering that ignores the pseudo-title
found_section_num_no_title(hdt, idx) == idx + 1
\* section_num of the loop: idx with a document title, idx + 1 without
found_section_num(hdt, idx) == IF hdt THEN idx ELSE idx + 1

\* the loop "for idx in range(start_idx, len(sections))", idx zero-based
RECURSIVE find_from(_, _, _, _)
find_from(sections, ident, hdt, idx) ==
    IF idx >= Len(sections) THEN None
    ELSE IF idx = 0 /\ hdt THEN find_from(sections, ident, hdt, idx + 1)
    ELSE IF title_matches(Lower(sections[idx + 1].title), ident)
         THEN found_section_num(hdt, idx)
    ELSE find_from(sections, ident, hdt, idx + 1)

find_section_by_title_or_number(sections, section_identifier) ==
    IF IsIntText(section_identifier)
       /\ 1 <= IntOf(section_identifier) /\ IntOf(section_identifier) <= Len(sections)
    THEN IntOf(section_identifier)
    ELSE LET hdt == has_doc_title(sections)
             start_idx == IF hdt THEN 1 ELSE 0
         IN find_from(sections, Strip(Lower(section_identifier)), hdt, start_idx)

(***************************************************************************)
(* The strings the section operations return.                              *)
(***************************************************************************)
RECURSIVE ListLines(_, _)
ListLines(lines, i) ==
    IF i > Len(lines) THEN <<>>
    ELSE IntText(lines[i].number) \o <<"."," ">> \o lines[i].title \o <<"\n">> \o ListLines(lines, i + 1)
\* the return value of handle_list_sections
list_text(r) ==
    IF r.kind = "no_sections" THEN <<"N","o"," ","s","e","c","t","i","o","n","s"," ","f","o",
                                     "u","n","d"," ","i","n"," ","B","R","D",".">>
    ELSE <<"*","*","B","R","D"," ","S","e","c","t","i","o","n","s",":","*","*","\n","\n">> \o ListLines(r.lines, 1)
\* the return value of handle_show_section
show_text(r) ==
    IF r.kind = "invalid"
    THEN <<"I","n","v","a","l","i","d"," ","s","e","c","t","i","o","n"," ","n","u","m","b","e",
           "r","."," ","P","l","e","a","s","e"," ","c","h","o","o","s","e"," ","1","-">> \o IntText(r.max)
    ELSE <<"#","#"," ">> \o IntText(r.number) \o <<"."," ">> \o r.title \o <<"\n","\n">> \o r.body
\* the "message" of the results of handle_update_section
ConfirmationText(section_number, title) ==
    CheckMark \o <<" ","S","e","c","t","i","o","n"," ","'">> \o IntText(section_number) \o <<"."," ">> \o title
                  \o <<"'"," ","u","p","d","a","t","e","d"," ","s","u","c","c","e","s","s","f",
                       "u","l","l","y">>
message_text(msg) ==
    CASE msg.kind = "updated" -> ConfirmationText(msg.number, msg.title)
      [] msg.kind = "invalid" ->
           <<"I","n","v","a","l","i","d"," ","s","e","c","t","i","o","n"," ","n","u","m","b",
             "e","r","."," ","P","l","e","a","s","e"," ","c","h","o","o","s","e"," ","1","-">> \o IntText(msg.other_number)
      [] msg.kind = "parse_failed" -> <<"F","a","i","l","e","d"," ","t","o"," ","p","a","r","s",
                                        "e"," ","J","S","O","N"," ","r","e","s","p","o","n","s",
                                        "e"," ","f","r","o","m"," ","A","I">>
      [] msg.kind = "invalid_structure" -> <<"I","n","v","a","l","i","d"," ","s","e","c","t",
                                             "i","o","n"," ","s","t","r","u","c","t","u","r",
                                             "e"," ","i","n"," ","A","I"," ","r","e","s","p",
                                             "o","n","s","e">>
      [] msg.kind = "wrong_section" ->
           <<"E","r","r","o","r",":"," ","A","I"," ","u","p","d","a","t","e","d"," ","s","e",
             "c","t","i","o","n"," ","#">> \o IntText(msg.number) \o <<" ","(","'">> \o msg.title
             \o <<"'",")"," ","i","n","s","t","e","a","d"," ","o","f"," ","s","e","c","t","i",
                  "o","n"," ","#">> \o IntText(msg.other_number) \o <<" ","(","'">>
             \o msg.other_title
             \o <<"'",")","."," ","P","l","e","a","s","e"," ","t","r","y"," ","a","g","a","i",
                  "n"," ","w","i","t","h"," ","e","x","p","l","i","c","i","t"," ","s","e","c",
                  "t","i","o","n"," ","n","u","m","b","e","r",".">>
      [] msg.kind = "update_failed" -> <<"U","p","d","a","t","e"," ","f","a","i","l","e","d",
                                         ":"," ","e","r","r","o","r">>

\* the prompt branch for replacement content
FullContentLen == 200
is_full_content(user_instruction) ==
    LET has_markdown_headers ==
            Contains(<<"#","#">>, user_instruction) \/ Contains(<<"*","*">>, user_instruction)
        has_structured_content ==
            \/ Contains(<<"\n","\n">>, user_instruction)
            \/ Contains(<<"-"," ">>, user_instruction)
            \/ Contains(<<"|">>, user_instruction)
    IN has_markdown_headers \/ (has_structured_content /\ Len(user_instruction) > FullContentLen)

\* section_content_text: the first three content blocks as text
MaxPreviewBlocks == 3
MaxPreviewCells == 5
MaxPreviewItems == 3
PromptPreviewLen == 300
Prefix(seq, n) == SubSeq(seq, 1, IF Len(seq) < n THEN Len(seq) ELSE n)
block_content_text(block) ==
    IF block.type = "paragraph" THEN block.text \o <<"\n">>
    ELSE IF block.type = "table" /\ Len(block.rows) > 0
    THEN <<"T","a","b","l","e",":"," ">> \o Join(Prefix(block.rows[1], MaxPreviewCells), <<" ","|"," ">>) \o <<"\n">>
    ELSE IF block.type = "bullet" /\ Len(block.items) > 0
    THEN <<"B","u","l","l","e","t","s",":"," ">> \o Join(Prefix(block.items, MaxPreviewItems), <<","," ">>) \o <<"\n">>
    ELSE <<>>
RECURSIVE blocks_content_text(_)
blocks_content_text(content) ==
    IF Len(content) = 0 THEN <<>>
    ELSE block_content_text(Head(content)) \o blocks_content_text(Tail(content))
section_content_text(section) == blocks_content_text(Prefix(section.content, MaxPreviewBlocks))
\* the prompt of the simple-instruction branch, by the values its text
\* interpolates; section stands for json.dumps(section, indent=2)
update_prompt(section, section_number, user_instruction) ==
    [section_number |-> section_number,
     array_index_shown |-> section_number - 1,
     section_title_clean |-> CleanTitle(section.title),
     preview |-> Prefix(section_content_text(section), PromptPreviewLen),
     section |-> section,
     user_instruction |-> user_instruction]
\* invoke_claude_for_chat(prompt, history) as handle_update_section calls it
GenerationCall(prompt, history) == [invoked |-> TRUE, prompt |-> prompt, history |-> history]
NoGenerationCall == [invoked |-> FALSE, prompt |-> <<>>, history |-> <<>>]
\* a call that hands the conversation history to the generation client
update_call_with_history(sections, section_number, user_instruction, conversation_history) ==
    IF update_invokes_generation(sections, section_number, is_full_content(user_instruction))
    THEN GenerationCall(update_prompt(sections[IF has_doc_title(sections) THEN section_number + 1
                                                ELSE section_number],
                                      section_number, user_instruction),
                        conversation_history)
    ELSE NoGenerationCall
\* the generation call of handle_update_section(brd_data, section_number,
\* user_instruction, conversation_history), if it makes one
update_generation_call(sections, section_number, user_instruction, conversation_history) ==
    IF update_invokes_generation(sections, section_number, is_full_content(user_instruction))
    THEN GenerationCall(update_prompt(sections[IF has_doc_title(sections) THEN section_number + 1
                                                ELSE section_number],
                                      section_number, user_instruction),
                        <<>>)
    ELSE NoGenerationCall

(***************************************************************************)
(* The conversation log (AgentCore Memory events of one session).          *)
(***************************************************************************)
Event(role, text) == [role |-> role, text |-> text]
MaxEventText == 9000
max_messages == 50

\* _build_conversational_payload: the role and text stored for an event
agentcore_role(role) ==
    CASE role = "user" -> "USER"
      [] role = "assistant" -> "ASSISTANT"
      [] role = "tool" -> "TOOL"
      [] OTHER -> "OTHER"
normalized_text(role, text) ==
    IF Len(Strip(text)) = 0
    THEN (CASE role = "user" -> <<"U","s","e","r"," ","m","e","s","s","a","g","e">>
            [] role = "assistant" -> <<"A","s","s","i","s","t","a","n","t"," ","r","e","s","p",
                                       "o","n","s","e">>
            [] OTHER -> <<"S","y","s","t","e","m"," ","m","e","s","s","a","g","e">>)
    ELSE LET t == Strip(text) IN
         IF Len(t) > MaxEventText THEN SubSeq(t, 1, MaxEventText) ELSE t
add_message_to_memory(events, role, content) ==
    Append(events, Event(agentcore_role(role), normalized_text(role, content)))

\* get_session_history: role as stored, text of every conversational event
\* but the system events, at most max_messages of them
IsSystemEvent(e) ==
    \/ StartsWith(e.text, <<"S","t","a","r","t","i","n","g"," ","B","R","D"," ","e","d","i","t",
                            "i","n","g"," ","s","e","s","s","i","o","n">>)
    \/ e.text = <<"S","e","s","s","i","o","n"," ","c","l","o","s","e","d"," ","b","y"," ","u",
                  "s","e","r",".">>
get_session_history(events) ==
    LET listed == IF Len(events) > max_messages THEN SubSeq(events, 1, max_messages)
                  ELSE events
    IN SelectSeq(listed, LAMBDA e : ~IsSystemEvent(e))

\* reversed(history)
Reversed(seq) == [i \in 1..Len(seq) |-> seq[Len(seq) + 1 - i]]

(***************************************************************************)
(* Storage: brd_structure.json and the plain-text rendering in S3.         *)
(***************************************************************************)
Stored(state, sections) == [state |-> state, sections |-> sections]
StoredText(state, text) == [state |-> state, text |-> text]
Store(structure, text) == [structure |-> structure, text |-> text]

\* "\n".join(line.rstrip() for line in lines)
RECURSIVE JoinRStripped(_)
JoinRStripped(lines) ==
    IF Len(lines) = 0 THEN <<>>
    ELSE IF Len(lines) = 1 THEN RStrip(lines[1])
    ELSE RStrip(lines[1]) \o <<"\n">> \o JoinRStripped(Tail(lines))

\* the lines render_brd_to_text appends for one content block
TableLines(rows) ==
    IF Len(rows) = 0 THEN <<>>
    ELSE LET header_line == Join(rows[1], <<" ","|"," ">>) IN
         <<header_line, [i \in 1..Len(header_line) |-> "-"]>>
           \o [i \in 1..(Len(rows) - 1) |-> Join(rows[i + 1], <<" ","|"," ">>)] \o << <<>> >>
BlockLines(block) ==
    IF block.type = "paragraph" THEN <<Strip(block.text), <<>> >>
    ELSE IF block.type = "bullet"
         THEN [i \in 1..Len(block.items) |-> <<"-"," ">> \o block.items[i]] \o << <<>> >>
    ELSE IF block.type = "table" THEN TableLines(block.rows)
    ELSE <<>>
RECURSIVE ContentLines(_)
ContentLines(content) ==
    IF Len(content) = 0 THEN <<>>
    ELSE BlockLines(Head(content)) \o ContentLines(Tail(content))
\* the loop "for idx in range(start_idx, len(sections))", idx zero-based
RECURSIVE SectionLines(_, _, _)
SectionLines(sections, idx, section_counter) ==
    IF idx >= Len(sections) THEN <<>>
    ELSE <<IntText(section_counter) \o <<"."," ">> \o CleanTitle(sections[idx + 1].title), <<>> >>
           \o ContentLines(sections[idx + 1].content)
           \o SectionLines(sections, idx + 1, section_counter + 1)

render_brd_to_text(sections) ==
    LET hdt == has_doc_title(sections)
        start_idx == IF hdt THEN 1 ELSE 0
        lines == << <<"B","u","s","i","n","e","s","s"," ","R","e","q","u","i","r","e","m","e",
                      "n","t","s"," ","D","o","c","u","m","e","n","t"," ","(","B","R","D",")">>, <<>> >>
                   \o (IF hdt THEN <<sections[1].title>> ELSE <<>>)
                   \o (IF Len(sections) > 0 THEN << <<>> >> ELSE <<>>)
                   \o SectionLines(sections, start_idx, 1)
    IN RStrip(JoinRStripped(lines)) \o <<"\n">>

\* create_minimal_structure_from_text: the loop over the lines; cur is the
\* open section with the content lines collected for it
HeaderLine == <<Bol, Group(1, <<Number>>), Lit(<<".">>), OptSpaces, Group(2, <<Plus(Dot)>>), Eol>>
NoSection == [open |-> FALSE, title |-> <<>>, lines |-> <<>>]
ClosedSection(cur) ==
    [title |-> cur.title,
     content |-> IF Len(cur.lines) > 0
                 THEN << Block("paragraph", Strip(Join(cur.lines, <<"\n">>)), <<>>, <<>>) >>
                 ELSE <<>>]
\* str.replace('##', '')
RECURSIVE RemoveHashes(_)
RemoveHashes(line) ==
    IF Len(line) = 0 THEN <<>>
    ELSE IF StartsWith(line, <<"#","#">>) THEN RemoveHashes(SubSeq(line, 3, Len(line)))
    ELSE <<Head(line)>> \o RemoveHashes(Tail(line))
RECURSIVE MinimalSections(_, _, _)
\* line: the stripped first line; section_match: the header pattern on it
minimal_line(lines, cur, sections, line, section_match) ==
    LET saved == IF cur.open THEN Append(sections, ClosedSection(cur)) ELSE sections
    IN IF Len(line) = 0 THEN MinimalSections(Tail(lines), cur, sections)
       ELSE IF section_match.ok
            THEN MinimalSections(Tail(lines),
                     [open |-> TRUE, title |-> Strip(group(section_match, line, 2)),
                      lines |-> <<>>], saved)
       ELSE IF StartsWith(line, <<"#","#">>) /\ Len(line) > 3
            THEN MinimalSections(Tail(lines),
                     [open |-> TRUE, title |-> Strip(RemoveHashes(line)),
                      lines |-> <<>>], saved)
       ELSE IF cur.open
            THEN MinimalSections(Tail(lines),
                     [cur EXCEPT !.lines = Append(@, line)], sections)
       ELSE MinimalSections(Tail(lines), cur, sections)
header_match(lines, cur, sections, line) ==
    minimal_line(lines, cur, sections, line, re_match(HeaderLine, line, NoFlags))
MinimalSections(lines, cur, sections) ==
    IF Len(lines) = 0
    THEN IF cur.open THEN Append(sections, ClosedSection(cur)) ELSE sections
    ELSE header_match(lines, cur, sections, Strip(Head(lines)))
\* returns {"sections": ...}, or None when no header line was found
create_minimal_structure_from_text(brd_text) ==
    LET sections == MinimalSections(SplitLines(brd_text), NoSection, <<>>) IN
    [ok |-> Len(sections) > 0, sections |-> sections]

(***************************************************************************)
(* The environment of one request: what the generation client returns and  *)
(* whether the S3 writes succeed.  "asked" lists, in the order the code    *)
(* reaches them, the environment inputs a run consulted.                   *)
(***************************************************************************)
\* convert_brd_text_to_json: kind "document" carries a dict with "sections";
\* kind "none" is None, a dict without "sections" or an exception
Rebuilt(kind, sections) == [kind |-> kind, sections |-> sections]
NoRebuild == Rebuilt("none", <<>>)
\* invoke_claude_for_chat for a general question: kind "text" or "raise"
Answer(kind, text) == [kind |-> kind, text |-> text]
NoAnswer == Answer("raise", <<>>)
Env(rebuild1, rebuild2, gen, answer, put_structure, put_text) ==
    [rebuild1 |-> rebuild1, rebuild2 |-> rebuild2, gen |-> gen, answer |-> answer,
     put_structure |-> put_structure, put_text |-> put_text]
DefaultEnv == Env(NoRebuild, NoRebuild, NotInvoked, NoAnswer, TRUE, TRUE)

\* a write that merges: a section still holding its original content does not
\* replace the stored one
save_merging_sections(store, sections, env) ==
    [ok |-> TRUE,
     store |-> [store EXCEPT !.structure =
         Stored("ok", [k \in 1..Len(sections) |->
             IF /\ store.structure.state = "ok" /\ k <= Len(store.structure.sections)
                /\ sections[k].content = OrigContent(k)
             THEN store.structure.sections[k] ELSE sections[k]])]]
save_brd_to_s3(store, sections, env) ==
    IF env.put_structure
    THEN [ok |-> TRUE, store |-> [store EXCEPT !.structure = Stored("ok", sections)]]
    ELSE [ok |-> FALSE, store |-> store]
save_brd_text_to_s3(store, sections, env) ==
    IF env.put_text
    THEN [ok |-> TRUE,
          store |-> [store EXCEPT !.text = StoredText("ok", render_brd_to_text(sections))]]
    ELSE [ok |-> FALSE, store |-> store]
\* None is the empty text (both are false for "if not brd_text")
get_brd_text_from_s3(store) ==
    IF store.text.state = "ok" THEN store.text.text ELSE <<>>

Loaded(ok, raised, sections, store, asked, calls) ==
    [ok |-> ok, raised |-> raised, sections |-> sections, store |-> store,
     asked |-> asked, calls |-> calls]

\* which: the environment input that answers this reconstruction call;
\* saved, text_saved: the two writes of the rebuilt document
rebuilt(store, which, brd_text, structured, saved, text_saved) ==
    IF Len(brd_text) = 0 THEN Loaded(FALSE, FALSE, <<>>, store, <<>>, 0)
    ELSE IF structured.kind # "document"
         THEN Loaded(FALSE, FALSE, <<>>, store, <<which>>, 1)
    ELSE IF ~saved.ok
         THEN Loaded(FALSE, FALSE, <<>>, store, <<which, "put_structure">>, 1)
    ELSE Loaded(TRUE, FALSE, structured.sections, text_saved.store,
                <<which, "put_structure", "put_text">>, 1)
rebuild_saved(store, which, structured, saved, env) ==
    rebuilt(store, which, get_brd_text_from_s3(store), structured, saved,
            save_brd_text_to_s3(saved.store, structured.sections, env))
backfill_brd_structure(store, which, env) ==
    rebuild_saved(store, which, env[which], save_brd_to_s3(store, env[which].sections, env),
                  env)

\* json.loads of an object that is not JSON raises JSONDecodeError, which the
\* "except ClientError" does not catch
get_brd_from_s3(store, env) ==
    IF store.structure.state = "ok"
    THEN Loaded(TRUE, FALSE, store.structure.sections, store, <<>>, 0)
    ELSE IF store.structure.state = "corrupt"
    THEN Loaded(FALSE, TRUE, <<>>, store, <<>>, 0)
    ELSE backfill_brd_structure(store, "rebuild1", env)

\* "Load current BRD data" of send_message: the document, or the response
\* the request returns at once.  stages: the sources tried, in order
Load(outcome, sections, store, asked, rebuild_calls, stages) ==
    [outcome |-> outcome, sections |-> sections, store |-> store, asked |-> asked,
     rebuild_calls |-> rebuild_calls, stages |-> stages]
load_result(store, first, second, brd_text, minimal, minimal_saved) ==
    LET asked2 == first.asked \o second.asked
        calls2 == first.calls + second.calls
        stages1 == IF store.structure.state = "ok" THEN <<"structure">>
                   ELSE <<"structure", "generation">>
    IN IF first.raised
       THEN Load("internal_error", <<>>, store, <<>>, 0, <<"structure">>)
       ELSE IF first.ok
       THEN Load("loaded", first.sections, first.store, first.asked, first.calls, stages1)
       ELSE IF second.ok
       THEN Load("loaded", second.sections, second.store, asked2, calls2,
                 stages1 \o <<"generation">>)
       ELSE IF Len(brd_text) = 0
       THEN Load("not_found", <<>>, second.store, asked2, calls2,
                 stages1 \o <<"generation">>)
       ELSE IF minimal.ok
       THEN Load("loaded", minimal.sections, minimal_saved.store,
                 asked2 \o <<"put_structure">>, calls2,
                 stages1 \o <<"generation", "heuristic">>)
       ELSE Load("regenerate", <<>>, second.store, asked2, calls2,
                 stages1 \o <<"generation", "heuristic">>)
load_minimal(store, first, second, brd_text, minimal, env) ==
    load_result(store, first, second, brd_text, minimal,
                save_brd_to_s3(second.store, minimal.sections, env))
load_text(store, first, second, brd_text, env) ==
    load_minimal(store, first, second, brd_text,
                 create_minimal_structure_from_text(brd_text), env)
load_second(store, first, second, env) ==
    load_text(store, first, second, get_brd_text_from_s3(second.store), env)
load_first(store, first, env) ==
    load_second(store, first, backfill_brd_structure(first.store, "rebuild2", env), env)
load_brd(store, env) == load_first(store, get_brd_from_s3(store, env), env)

(***************************************************************************)
(* Section tracking of send_message: the section in the current message    *)
(* and, failing that, the section derived from the conversation history.   *)
(***************************************************************************)
\* any(word in text for word in words)
AnyIn(words, text) == \E w \in words : Contains(w, text)

EditWords == {<<"c","h","a","n","g","e">>, <<"u","p","d","a","t","e">>, <<"m","o","d","i","f","y">>, <<"e","d","i","t">>, <<"r","e","p","l","a","c","e">>}
CommandWords == EditWords \cup {<<"s","h","o","w">>, <<"l","i","s","t">>}
FirstLineCommandWords == CommandWords \cup {<<"h","i">>, <<"h","e","l","l","o">>}
LineMarkers == {<<"#","#">>, <<"*","*">>, <<"|">>, <<"-">>, <<"-","-","-">>, <<"S","E","C","T","I","O","N">>, <<"I","M","P","O","R","T",
                                                                      "A","N","T">>}
SectionContentIndicators ==
    {<<"\t">>, <<"|">>, <<"R","o","l","e">>, <<"R","e","s","p","o","n","s","i","b","i","l","i","t","y">>, <<"S","t","a","k","e","h","o","l","d","e","r">>, <<"B","u","s","i","n","e",
                                                                     "s","s"," ","D","r","i",
                                                                     "v","e","r","s">>,
     <<"P","a","i","n"," ","P","o","i","n","t","s">>, <<"F","u","n","c","t","i","o","n","a","l"," ","R","e","q","u","i","r","e",
                        "m","e","n","t","s">>, <<"N","o","n","-","F","u","n","c","t","i",
                                                     "o","n","a","l"," ","R","e","q","u","i",
                                                     "r","e","m","e","n","t","s">>}
OverviewTitles == {<<"d","o","c","u","m","e","n","t"," ","o","v","e","r","v","i","e","w">>, <<"1","."," ","d","o","c","u","m","e","n","t"," ","o",
                                            "v","e","r","v","i","e","w">>}
ShowQuestionWords ==
    {<<"u","p","d","a","t","e","d">>, <<"w","h","a","t">>, <<"w","h","i","c","h">>, <<"w","h","e","r","e">>, <<"w","h","e","n">>, <<"w","h","y">>, <<"h","o","w">>, <<"a","l","l">>}
S_updated_successfully == <<"u","p","d","a","t","e","d"," ","s","u","c","c","e","s","s","f","u",
                            "l","l","y">>
S_updated == <<"u","p","d","a","t","e","d">>
S_here == <<"h","e","r","e">>
MinFirstLine == 2
MinTitleLine == 3
DisplayMargin == 20
UpdatedWindow == 50

\* the handler's patterns on the current message, each with the flags its
\* call site passes; anchored: re.match, otherwise re.search
Searched(nodes, flags, anchored) == [nodes |-> nodes, flags |-> flags, anchored |-> anchored]
MessagePatterns ==
    [user_request |-> Searched(RE_user_request, IgnoreCaseDotAll, FALSE),
     section_in_message |-> Searched(RE_section_in_message, IgnoreCase, FALSE),
     hash_section |-> Searched(RE_hash_section, IgnoreCase, FALSE),
     show_number |-> Searched(RE_show_number, NoFlags, FALSE),
     section_number |-> Searched(RE_section_number, IgnoreCase, FALSE),
     show_rest |-> Searched(RE_show_rest, NoFlags, FALSE),
     question_start |-> Searched(RE_question_start, NoFlags, TRUE),
     confirmation |-> Searched(RE_confirmation, IgnoreCase, FALSE),
     pattern1 |-> Searched(RE_pattern1, IgnoreCaseDotAll, FALSE),
     pattern1b |-> Searched(RE_pattern1b, IgnoreCaseDotAll, FALSE),
     pattern2 |-> Searched(RE_pattern2, IgnoreCaseDotAll, FALSE),
     pattern2b |-> Searched(RE_pattern2b, IgnoreCaseDotAll, FALSE),
     pattern3 |-> Searched(RE_pattern3, IgnoreCaseDotAll, FALSE),
     pattern3b |-> Searched(RE_pattern3b, IgnoreCaseDotAll, FALSE),
     pattern4 |-> Searched(RE_pattern4, IgnoreCaseDotAll, FALSE),
     pattern4b |-> Searched(RE_pattern4b, IgnoreCaseDotAll, FALSE),
     pattern5 |-> Searched(RE_pattern5, IgnoreCaseDotAll, FALSE),
     pattern5b |-> Searched(RE_pattern5b, IgnoreCaseDotAll, FALSE),
     change_to |-> Searched(RE_change_to, IgnoreCaseDotAll, FALSE),
     section_title |-> Searched(RE_section_title, IgnoreCase, FALSE),
     pattern7 |-> Searched(RE_pattern7, IgnoreCaseDotAll, FALSE),
     pattern7b |-> Searched(RE_pattern7b, IgnoreCaseDotAll, FALSE),
     change_to_with |-> Searched(RE_change_to_with, IgnoreCase, FALSE),
     change_rest |-> Searched(RE_change_rest, IgnoreCase, FALSE),
     pattern5_fallback |-> Searched(RE_pattern5, IgnoreCase, FALSE)]
find(pattern, text) ==
    re_search_from(pattern.nodes, text, 0, IF pattern.anchored THEN 0 ELSE Len(text),
                   pattern.flags)
\* the matches of the handler's patterns on one text of the current message
text_matches(text) ==
    [name \in DOMAIN MessagePatterns |-> find(MessagePatterns[name], text)]

\* the "last meaningful line" of a message without a USER REQUEST marker,
\* lines newest first; the empty text stands for None
RECURSIVE last_request_line(_)
last_request_line(lines) ==
    IF Len(lines) = 0 THEN <<>>
    ELSE LET line == Strip(Head(lines)) IN
         IF /\ Len(line) > 0
            /\ ~\E marker \in LineMarkers : StartsWith(line, marker)
            /\ AnyIn(CommandWords, Lower(line))
         THEN line
         ELSE last_request_line(Tail(lines))

\* the title looked up in the document for a number found without a title
title_from_document(sections, section_in_message) ==
    IF Len(sections) > 0 /\ section_in_message <= Len(sections) /\ section_in_message > 0
    THEN LET first_title == sections[1].title
             section_idx ==
                 IF /\ section_in_message - 1 = 0
                    /\ Lower(first_title) \notin OverviewTitles
                    /\ (Contains(S_ai_powered, Lower(first_title))
                          \/ Len(first_title) < TitleShortLen)
                 THEN section_in_message ELSE section_in_message - 1
         IN IF section_idx < Len(sections)
            THEN CleanTitle(sections[section_idx + 1].title) ELSE <<>>
    ELSE <<>>

\* history, newest first: the number in the most recent user "show" command
RECURSIVE scan_user_show(_, _)
\* content: the lower-cased text of the newest message; show_match,
\* show_title_match: the two "show" patterns on it; section_num: the section
\* its title resolves to
user_show(msgs, sections, content, show_match, show_title_match, section_num) ==
    IF Head(msgs).role # "user" THEN scan_user_show(Tail(msgs), sections)
    ELSE IF show_match.ok THEN IntOf(group(show_match, content, 1))
    ELSE IF /\ show_title_match.ok
            /\ Lower(Strip(group(show_title_match, content, 1))) \notin ShowQuestionWords
            /\ section_num # None
         THEN section_num
    ELSE scan_user_show(Tail(msgs), sections)
user_show_title(msgs, sections, content, show_match, show_title_match) ==
    user_show(msgs, sections, content, show_match, show_title_match,
              find_section_by_title_or_number(
                  sections, Strip(group(show_title_match, content, 1))))
user_show_in(msgs, sections, content) ==
    user_show_title(msgs, sections, content, re_search(RE_show_number, content, NoFlags),
                    re_search(RE_show_title, content, NoFlags))
scan_user_show(msgs, sections) ==
    IF Len(msgs) = 0 THEN None
    ELSE user_show_in(msgs, sections, Lower(Head(msgs).text))

\* history, newest first: the number in the most recent assistant display
RECURSIVE scan_assistant_display(_)
\* header, anywhere: the two patterns on the text of the newest message
assistant_display(msgs, content, header, anywhere) ==
    LET first_chars == IF Len(content) > UpdatedWindow
                       THEN SubSeq(Lower(content), 1, UpdatedWindow) ELSE Lower(content)
    IN IF Head(msgs).role # "assistant" THEN scan_assistant_display(Tail(msgs))
       ELSE IF \/ Contains(S_updated_successfully, Lower(content))
               \/ Contains(CheckMark, content)
               \/ Contains(<<"S","e","c","t","i","o","n"," ","'">>, content)
            THEN scan_assistant_display(Tail(msgs))
       ELSE IF /\ header.ok
               /\ Len(content) > Len(Strip(group(header, content, 2))) + DisplayMargin
            THEN IntOf(group(header, content, 1))
       ELSE IF anywhere.ok /\ ~Contains(S_updated, first_chars)
            THEN IntOf(group(anywhere, content, 1))
       ELSE scan_assistant_display(Tail(msgs))
scan_assistant_display(msgs) ==
    IF Len(msgs) = 0 THEN None
    ELSE assistant_display(msgs, Head(msgs).text,
                           re_search(RE_section_header, Head(msgs).text, IgnoreCaseMultiline),
                           re_search(RE_number_title, Head(msgs).text, IgnoreCase))

\* history, newest first: any "N. " in a message that is not a confirmation
RECURSIVE scan_any_reference(_)
any_reference(msgs, content, section_match) ==
    IF \/ Contains(S_updated_successfully, Lower(content))
       \/ Contains(CheckMark, content)
    THEN scan_any_reference(Tail(msgs))
    ELSE IF section_match.ok THEN IntOf(group(section_match, content, 1))
    ELSE scan_any_reference(Tail(msgs))
scan_any_reference(msgs) ==
    IF Len(msgs) = 0 THEN None
    ELSE any_reference(msgs, Head(msgs).text,
                       re_search(RE_number_dot, Head(msgs).text, IgnoreCase))

\* "SECOND: If not found in current message, check conversation history"
first_found(shown, displayed, referenced) ==
    IF shown # None THEN shown
    ELSE IF displayed # None THEN displayed
    ELSE referenced
section_from_history(history, sections) ==
    first_found(scan_user_show(Reversed(history), sections),
                scan_assistant_display(Reversed(history)),
                scan_any_reference(Reversed(history)))

(***************************************************************************)
(* Parsing of the message by send_message.                                 *)
(***************************************************************************)
\* str.split(): the maximal runs of non-whitespace characters, in order
RECURSIVE SplitWords(_)
SplitWords(s) ==
    LET t == LStrip(s) IN
    IF Len(t) = 0 THEN <<>>
    ELSE LET k == CHOOSE k \in 1..Len(t) :
                     /\ \A i \in 1..k : t[i] \notin Whitespace
                     /\ (k = Len(t) \/ t[k + 1] \in Whitespace)
         IN <<SubSeq(t, 1, k)>> \o SplitWords(SubSeq(t, k + 1, Len(t)))

\* role.lower() of a stored role
lower_role(role) ==
    CASE role = "USER" -> "user"
      [] role = "ASSISTANT" -> "assistant"
      [] role = "TOOL" -> "tool"
      [] role = "OTHER" -> "other"
      [] OTHER -> role

\* what an assistant message must hold to be read as an update confirmation
looks_like_confirmation(content) ==
    \/ Contains(S_updated_successfully, Lower(content))
    \/ (Contains(CheckMark, content) /\ Contains(<<"S","e","c","t","i","o","n">>, content))

\* "show me updated section": the number in the most recent assistant update
\* confirmation, history newest first
RECURSIVE scan_last_update(_, _)
last_update(msgs, pattern, content, section_match) ==
    IF lower_role(Head(msgs).role) # "assistant"
    THEN scan_last_update(Tail(msgs), pattern)
    ELSE IF looks_like_confirmation(content) /\ section_match.ok
         THEN IntOf(group(section_match, content, 1))
    ELSE scan_last_update(Tail(msgs), pattern)
scan_last_update(msgs, pattern) ==
    IF Len(msgs) = 0 THEN None
    ELSE last_update(msgs, pattern, Head(msgs).text,
                     re_search(pattern, Head(msgs).text, IgnoreCase))

\* the order in which the handler reads the history for update confirmations
confirmation_scan(history) == Reversed(history)

S_no_update_information ==
    <<"I"," ","d","o","n","'","t"," ","h","a","v","e"," ","i","n","f","o","r","m","a","t","i",
      "o","n"," ","a","b","o","u","t"," ","w","h","i","c","h"," ","s","e","c","t","i","o","n",
      " ","w","a","s"," ","l","a","s","t"," ","u","p","d","a","t","e","d","."," ","P","l","e",
      "a","s","e"," ","s","p","e","c","i","f","y"," ","a"," ","s","e","c","t","i","o","n"," ",
      "n","u","m","b","e","r",","," ","e",".","g",".",","," ","'","s","h","o","w"," ","s","e",
      "c","t","i","o","n"," ","4","'",".">>
S_show_usage == <<"U","s","a","g","e",":"," ","s","h","o","w"," ","<","s","e","c","t","i","o",
                  "n"," ","n","u","m","b","e","r",">"," ","o","r"," ","s","h","o","w"," ","s",
                  "e","c","t","i","o","n"," ","<","n","u","m","b","e","r",">"," ","o","r"," ",
                  "s","h","o","w"," ","<","s","e","c","t","i","o","n"," ","n","a","m","e",">">>

\* what the "show" branch displays: section n, or a text
ShowNumber(n) == [kind |-> "number", n |-> n, text |-> <<>>]
ShowText(text) == [kind |-> "text", n |-> None, text |-> text]
displayed_text(sections, shown) ==
    IF shown.kind = "number" THEN show_text(handle_show_section(sections, shown.n))
    ELSE shown.text
\* lower: the lower-cased message; updated_num: the last updated section;
\* by_show, by_section, show_match: the patterns on lower; by_title: the
\* section the identifier resolves to; words: message.split()
show_choice(lower, updated_num, by_show, by_section, show_match, by_title, words) ==
    LET second_is_int == Len(words) >= 2 /\ IsIntText(words[2])
    IN IF Contains(S_updated, lower)
       THEN IF updated_num # None THEN ShowNumber(updated_num)
            ELSE ShowText(S_no_update_information)
       ELSE IF by_show.ok THEN ShowNumber(IntOf(group(by_show, lower, 1)))
       ELSE IF by_section.ok THEN ShowNumber(IntOf(group(by_section, lower, 1)))
       ELSE IF show_match.ok
       THEN IF by_title # None THEN ShowNumber(by_title)
            ELSE IF second_is_int THEN ShowNumber(IntOf(words[2]))
            ELSE ShowText(<<"C","o","u","l","d"," ","n","o","t"," ","f","i","n","d"," ","s","e",
                            "c","t","i","o","n"," ","'">> \o Strip(group(show_match, lower, 1))
                   \o <<"'","."," ","P","l","e","a","s","e"," ","u","s","e"," ","'","l","i","s",
                        "t","'"," ","t","o"," ","s","e","e"," ","a","l","l"," ","s","e","c","t",
                        "i","o","n","s"," ","o","r"," ","s","p","e","c","i","f","y"," ","a"," ",
                        "s","e","c","t","i","o","n"," ","n","u","m","b","e","r",".">>)
       ELSE IF second_is_int THEN ShowNumber(IntOf(words[2]))
       ELSE ShowText(S_show_usage)
show_identified(message, lower, sections, updated_num, by_show, by_section, show_match) ==
    displayed_text(sections,
        show_choice(lower, updated_num, by_show, by_section, show_match,
                    find_section_by_title_or_number(sections,
                                                    Strip(group(show_match, lower, 1))),
                    SplitWords(message)))
last_updated_from_message(user_message, in_message) ==
    IF /\ (\/ Contains(CheckMark, user_message)
           \/ Contains(S_updated_successfully, Lower(user_message)))
       /\ in_message.ok
    THEN IntOf(group(in_message, user_message, 1)) ELSE None
last_updated(from_message, history) ==
    IF from_message # None THEN from_message
    ELSE IF Len(history) > 0
    THEN scan_last_update(confirmation_scan(history), RE_confirmation)
    ELSE None
show_lower(message, lower, user_message, sections, history) ==
    show_identified(message, lower, sections,
        last_updated(last_updated_from_message(
                         user_message, re_search(RE_confirmation, user_message, IgnoreCase)),
                     history),
        re_search(RE_show_number, lower, NoFlags),
        re_search(RE_section_number, lower, NoFlags),
        re_search(RE_show_rest, lower, NoFlags))
\* the body of the "show" branch; message: user_message_clean,
\* user_message: the message as received
show_branch(message, user_message, sections, history) ==
    show_lower(message, Lower(message), user_message, sections, history)

ShowTitleWords ==
    {<<"a","s","s","u","m","p","t","i","o","n","s">>, <<"c","o","n","s","t","r","a","i","n","t","s">>, <<"s","t","a","k","e","h","o","l","d","e","r","s">>, <<"s","c","o","p","e">>, <<"p","u","r","p","o","s",
                                                                      "e">>, <<"u","p","d",
                                                                                   "a","t","e",
                                                                                   "d">>}
\* the condition of the "show" branch
is_show(message) ==
    LET lower == Lower(message) IN
    \/ StartsWith(lower, <<"s","h","o","w"," ">>)
    \/ (Contains(<<"s","h","o","w">>, lower)
          /\ (Contains(<<"s","e","c","t","i","o","n">>, lower) \/ AnyIn(ShowTitleWords, lower)))

QuestionPhrases ==
    {<<"w","h","a","t"," ","u","p","d","a","t","e","d">>, <<"w","h","i","c","h"," ","s","e","c","t","i","o","n">>, <<"w","h","a","t"," ","c","h","a","n","g","e","s">>, <<"w","h","a","t"," ","d","i","d",
                                                              " ","i">>, <<"w","h","a","t",
                                                                              " ","h","a","v",
                                                                              "e"," ","i">>,
     <<"s","h","o","w"," ","m","e"," ","w","h","a","t">>, <<"t","e","l","l"," ","m","e"," ","w","h","a","t">>, <<"w","h","a","t"," ","s","e","c","t","i","o","n","s">>, <<"w","h","i","c","h"," ","s","e",
                                                              "c","t","i","o","n","s">>}
is_question(message) ==
    LET lower == Lower(message)
        question_start == re_match(RE_question_start, lower, NoFlags)
    IN \/ AnyIn(QuestionPhrases, lower)
       \/ (question_start.ok /\ (Contains(S_updated, lower) \/ Contains(<<"s","e","c","t","i",
                                                                          "o","n">>, lower)))

(***************************************************************************)
(* The cascade of update patterns.  match: whether the variable "match"    *)
(* of the code holds a match; the empty text stands for None.              *)
(***************************************************************************)
Parsed(match, section_num, section_title, instruction) ==
    [match |-> match, section_num |-> section_num, section_title |-> section_title,
     instruction |-> instruction]
\* f"change {old_text} to {new_text}"
ChangeInstruction(old_text, new_text) == <<"c","h","a","n","g","e"," ">> \o old_text \o <<" ","t","o"," ">> \o new_text
Pattern7bStopWords ==
    {<<"i">>, <<"h","a","v","e">>, <<"w","h","a","t">>, <<"w","h","i","c","h">>, <<"w","h","e","r","e">>, <<"w","h","e","n">>, <<"w","h","y">>, <<"h","o","w">>}
MinPattern7bTitle == 3

\* Pattern 8: the section a "... here" message is applied to
context_found(sections, last_shown_section, last_shown_section_title, found) ==
    LET array_index == IF has_doc_title(sections) THEN found
                       ELSE found - 1
    IN IF Len(last_shown_section_title) > 0 /\ found # None
          /\ array_index < Len(sections)
       THEN found
       ELSE last_shown_section
\* a "... here" message applied to the first section, whatever is in view
first_section_in_view(sections, last_shown_section, last_shown_section_title) == 1
contextual_section(sections, last_shown_section, last_shown_section_title) ==
    context_found(sections, last_shown_section, last_shown_section_title,
                  find_section_by_title_or_number(sections, last_shown_section_title))

update_patterns(message, mt, sections, last_shown_section, last_shown_section_title) ==
    LET g(m, k) == Strip(group(m, message, k))
        n(m, k) == IntOf(group(m, message, k))
        by_number(prev, m) ==
            IF ~prev.match /\ m.ok THEN Parsed(TRUE, n(m, 1), prev.section_title, g(m, 2))
            ELSE prev
        by_title(prev, m) ==
            IF ~prev.match /\ m.ok THEN Parsed(TRUE, prev.section_num, g(m, 1), g(m, 2))
            ELSE prev
        pattern5(prev) ==
            IF ~prev.match /\ mt.pattern5.ok
            THEN Parsed(TRUE, n(mt.pattern5, 3), prev.section_title,
                        ChangeInstruction(g(mt.pattern5, 1), g(mt.pattern5, 2)))
            ELSE prev
        pattern5b(prev) ==
            IF ~prev.match /\ mt.pattern5b.ok
            THEN Parsed(TRUE, prev.section_num, g(mt.pattern5b, 3),
                        ChangeInstruction(g(mt.pattern5b, 1), g(mt.pattern5b, 2)))
            ELSE prev
        \* Patterns 6 and 6b assign the number or title and the instruction
        \* but leave "match" as it is
        pattern6(prev) ==
            IF ~prev.match /\ mt.change_to.ok /\ mt.section_number.ok
            THEN Parsed(FALSE, n(mt.section_number, 1), prev.section_title,
                        ChangeInstruction(g(mt.change_to, 1), g(mt.change_to, 2)))
            ELSE prev
        pattern6b(prev) ==
            IF ~prev.match /\ mt.change_to.ok /\ mt.section_title.ok
            THEN Parsed(FALSE, prev.section_num, g(mt.section_title, 1),
                        ChangeInstruction(g(mt.change_to, 1), g(mt.change_to, 2)))
            ELSE prev
        \* Pattern 7b keeps the title and instruction it assigned when it
        \* rejects its match
        pattern7b(prev) ==
            IF ~prev.match /\ mt.pattern7b.ok
            THEN Parsed(Len(g(mt.pattern7b, 1)) >= MinPattern7bTitle
                          /\ Lower(g(mt.pattern7b, 1)) \notin Pattern7bStopWords,
                        prev.section_num, g(mt.pattern7b, 1), g(mt.pattern7b, 2))
            ELSE prev
        pattern8(prev) ==
            IF /\ ~prev.match /\ prev.section_num = None /\ Len(prev.section_title) = 0
               /\ Contains(S_here, Lower(message))
               /\ last_shown_section # None
            THEN Parsed(FALSE,
                        contextual_section(sections, last_shown_section,
                                           last_shown_section_title),
                        prev.section_title,
                        IF mt.change_to_with.ok
                        THEN ChangeInstruction(g(mt.change_to_with, 1),
                                               g(mt.change_to_with, 2))
                        ELSE IF mt.change_rest.ok THEN g(mt.change_rest, 1)
                        ELSE prev.instruction)
            ELSE prev
        \* "If we found a section title, convert it to section number"
        title_to_number(prev) ==
            IF Len(prev.section_title) > 0 /\ prev.section_num = None
            THEN [prev EXCEPT !.section_num =
                      find_section_by_title_or_number(sections, prev.section_title)]
            ELSE prev
    IN \* the patterns in the order of the code, each applied to the result of
       \* the ones before it
       title_to_number(pattern8(pattern7b(by_number(
           pattern6b(pattern6(pattern5b(pattern5(
               by_title(by_number(by_title(by_number(
               by_title(by_number(by_title(by_number(
                   Parsed(FALSE, None, <<>>, <<>>),
                   mt.pattern1), mt.pattern1b), mt.pattern2), mt.pattern2b),
                   mt.pattern3), mt.pattern3b), mt.pattern4), mt.pattern4b))))),
           mt.pattern7))))

(***************************************************************************)
(* General questions: greetings, short messages and the prompt handed to   *)
(* the generation client.                                                  *)
(***************************************************************************)
Greetings == {<<"h","i">>, <<"h","e","l","l","o">>, <<"h","e","y">>, <<"h","e","l","p">>, <<"?">>, <<"h","e","l","p"," ","m","e">>}
MinGeneralLen == 10
UpdateQuestionPhrases ==
    {<<"w","h","i","c","h"," ","s","e","c","t","i","o","n","s">>, <<"w","h","a","t"," ","s","e","c","t","i","o","n","s">>, <<"h","o","w"," ","m","a","n","y"," ","s","e","c",
                                              "t","i","o","n","s">>, <<"s","e","c","t","i","o",
                                                                     "n","s"," ","i"," ","h",
                                                                     "a","v","e"," ","u","p",
                                                                     "d","a","t","e","d">>,
     <<"s","e","c","t","i","o","n","s"," ","u","p","d","a","t","e","d">>, <<"s","e","c","t","i","o","n","s"," ","c","h","a","n","g","e","d">>, <<"s","e","c","t","i","o","n","s"," ","m","o",
                                                   "d","i","f","i","e","d">>, <<"s","e","c","t","i",
                                                                          "o","n","s"," ","e",
                                                                          "d","i","t","e","d">>}
greeting_text(section_count) ==
    <<"H","e","l","l","o","!"," ","I","'","m"," ","y","o","u","r"," ","B","R","D"," ","a","s",
      "s","i","s","t","a","n","t","."," ","I"," ","c","a","n"," ","h","e","l","p"," ","y","o",
      "u"," ","w","i","t","h",":","\n","\n">>
    \o <<"-"," ","*","*","L","i","s","t"," ","s","e","c","t","i","o","n","s","*","*",":"," ",
         "\"","l","i","s","t","\""," ","o","r"," ","\"","s","h","o","w"," ","a","l","l"," ","s",
         "e","c","t","i","o","n","s","\"","\n">>
    \o <<"-"," ","*","*","V","i","e","w"," ","a"," ","s","e","c","t","i","o","n","*","*",":",
         " ","\"","s","h","o","w"," ","s","e","c","t","i","o","n"," ","4","\""," ","o","r"," ",
         "\"","s","h","o","w"," ","m","e"," ","s","e","c","t","i","o","n"," ","4","\""," ","o",
         "r"," ","\"","s","h","o","w"," ","s","t","a","k","e","h","o","l","d","e","r","s","\"",
         "\n">>
    \o <<"-"," ","*","*","U","p","d","a","t","e"," ","a"," ","s","e","c","t","i","o","n","*",
         "*",":"," ","\"","c","h","a","n","g","e"," ","X"," ","t","o"," ","Y"," ","i","n"," ",
         "s","e","c","t","i","o","n"," ","4","\""," ","o","r"," ","\"","u","p","d","a","t","e",
         " ","s","e","c","t","i","o","n"," ","4",":"," ","c","h","a","n","g","e"," ","X"," ",
         "t","o"," ","Y","\"","\n">>
    \o <<"-"," ","*","*","C","o","n","t","e","x","t","-","a","w","a","r","e"," ","u","p","d",
         "a","t","e","s","*","*",":"," ","W","h","e","n"," ","v","i","e","w","i","n","g"," ",
         "a"," ","s","e","c","t","i","o","n",","," ","s","a","y"," ","\"","c","h","a","n","g",
         "e"," ","X"," ","t","o"," ","Y"," ","h","e","r","e","\""," ","t","o"," ","u","p","d",
         "a","t","e"," ","t","h","a","t"," ","s","e","c","t","i","o","n","\n","\n">>
    \o <<"C","u","r","r","e","n","t"," ","B","R","D"," ","h","a","s"," ">> \o IntText(section_count) \o <<" ","s","e","c","t","i","o","n","s",
                                                           ".","\n","\n","W","h","a","t"," ",
                                                           "w","o","u","l","d"," ","y","o","u",
                                                           " ","l","i","k","e"," ","t","o"," ",
                                                           "d","o","?">>
S_short_message ==
    <<"I","'","m"," ","h","e","r","e"," ","t","o"," ","h","e","l","p"," ","w","i","t","h"," ",
      "y","o","u","r"," ","B","R","D","."," ","Y","o","u"," ","c","a","n",":","\n","-"," ","L",
      "i","s","t"," ","s","e","c","t","i","o","n","s",":"," ","'","l","i","s","t","'","\n","-",
      " ","S","h","o","w"," ","a"," ","s","e","c","t","i","o","n",":"," ","'","s","h","o","w",
      " ","s","e","c","t","i","o","n"," ","4","'","\n","-"," ","U","p","d","a","t","e"," ","a",
      " ","s","e","c","t","i","o","n",":"," ","'","c","h","a","n","g","e"," ","X"," ","t","o",
      " ","Y"," ","i","n"," ","s","e","c","t","i","o","n"," ","4","'","\n","\n","W","h","a","t",
      " ","w","o","u","l","d"," ","y","o","u"," ","l","i","k","e"," ","t","o"," ","d","o","?">>
answer_fallback(message) ==
    <<"I"," ","u","n","d","e","r","s","t","a","n","d"," ","y","o","u","'","r","e"," ","a","s",
      "k","i","n","g",":"," ","'">> \o message
    \o <<"'","."," ","C","o","u","l","d"," ","y","o","u"," ","b","e"," ","m","o","r","e"," ",
         "s","p","e","c","i","f","i","c","?"," ","I"," ","c","a","n"," ","h","e","l","p"," ",
         "y","o","u"," ","l","i","s","t"," ","s","e","c","t","i","o","n","s",","," ","v","i",
         "e","w"," ","s","e","c","t","i","o","n","s",","," ","o","r"," ","u","p","d","a","t",
         "e"," ","s","e","c","t","i","o","n","s"," ","i","n"," ","y","o","u","r"," ","B","R",
         "D",".">>

Updated(number, title) == [number |-> number, title |-> title]
\* the loop over reversed(history) that collects the update confirmations,
\* one entry for a section number
RECURSIVE collect_updated(_, _)
confirmed_update(msgs, found, content, section_match) ==
    LET section_num == IntOf(group(section_match, content, 1))
        section_title == Strip(group(section_match, content, 2))
    IN IF /\ lower_role(Head(msgs).role) = "assistant"
          /\ looks_like_confirmation(content)
          /\ section_match.ok
          /\ ~\E i \in 1..Len(found) : found[i].number = section_num
       THEN collect_updated(Tail(msgs), Append(found, Updated(section_num, section_title)))
       ELSE collect_updated(Tail(msgs), found)
collect_updated(msgs, found) ==
    IF Len(msgs) = 0 THEN found
    ELSE confirmed_update(msgs, found, Head(msgs).text,
                          re_search(RE_confirmation_open, Head(msgs).text, IgnoreCase))

\* a list left in the order of collection
in_collection_order(updated) == updated
\* all_updated_sections.sort(key=lambda x: x["number"])
RECURSIVE sort_by_number(_)
sort_by_number(updated) ==
    IF Len(updated) = 0 THEN <<>>
    ELSE LET k == CHOOSE k \in 1..Len(updated) :
                     \A j \in 1..Len(updated) :
                         \/ updated[k].number < updated[j].number
                         \/ (updated[k].number = updated[j].number /\ k <= j)
         IN <<updated[k]>>
              \o sort_by_number(SubSeq(updated, 1, k - 1) \o SubSeq(updated, k + 1, Len(updated)))

\* ", ".join(f"Section {number} ({title})")
RECURSIVE sections_list(_)
sections_list(updated) ==
    IF Len(updated) = 0 THEN <<>>
    ELSE <<"S","e","c","t","i","o","n"," ">> \o IntText(Head(updated).number) \o <<" ","(">> \o Head(updated).title \o <<")">>
           \o (IF Len(updated) > 1 THEN <<","," ">> ELSE <<>>) \o sections_list(Tail(updated))

\* update_context of the prompt
update_context(sections, all_updated_sections, last_updated_section) ==
    IF Len(all_updated_sections) > 0
    THEN <<"\n","\n","A","l","l"," ","u","p","d","a","t","e","d"," ","s","e","c","t","i","o",
           "n","s"," ","f","o","u","n","d"," ","i","n"," ","c","o","n","v","e","r","s","a","t",
           "i","o","n"," ","h","i","s","t","o","r","y",":","\n">>
           \o sections_list(all_updated_sections)
           \o <<"\n","T","o","t","a","l",":"," ">> \o IntText(Len(all_updated_sections)) \o <<" ","s","e","c","t","i",
                                                                       "o","n","(","s",")">>
    ELSE IF last_updated_section # None /\ last_updated_section <= Len(sections)
    THEN <<"\n","\n","L","a","s","t"," ","u","p","d","a","t","e","d"," ","s","e","c","t","i",
           "o","n",":"," ","S","e","c","t","i","o","n"," ">> \o IntText(last_updated_section) \o <<" ","-",
                                                                                      " ">>
           \o sections[last_updated_section].title
    ELSE <<>>

\* the general-question block up to the call of the generation client.
\* kind "reply": response is the answer; kind "ask": the client is invoked
General(kind, response, last_updated_section, is_update_question, all_updated_sections,
        update_context_text) ==
    [kind |-> kind, response |-> response, last_updated_section |-> last_updated_section,
     is_update_question |-> is_update_question,
     all_updated_sections |-> all_updated_sections, update_context |-> update_context_text]
general_reply(message, sections, last_updated_section, is_update_question,
              all_updated_sections) ==
    IF Strip(Lower(message)) \in Greetings
    THEN General("reply", greeting_text(Len(sections)), last_updated_section, FALSE,
                 <<>>, <<>>)
    ELSE IF Len(Strip(message)) < MinGeneralLen
    THEN General("reply", S_short_message, last_updated_section, FALSE, <<>>, <<>>)
    ELSE General("ask", <<>>, last_updated_section, is_update_question,
                 all_updated_sections,
                 update_context(sections, all_updated_sections, last_updated_section))
updated_sections(message, sections, history, last_updated_section, is_update_question) ==
    general_reply(message, sections, last_updated_section, is_update_question,
                  sort_by_number(IF is_update_question /\ Len(history) > 0
                                 THEN collect_updated(Reversed(history), <<>>) ELSE <<>>))
general_question(message, sections, history) ==
    updated_sections(message, sections, history,
                     IF Len(history) > 0
                     THEN scan_last_update(confirmation_scan(history), RE_confirmation_number)
                     ELSE None,
                     AnyIn(UpdateQuestionPhrases, Lower(message)))

(***************************************************************************)
(* send_message: the section context of the request.                       *)
(***************************************************************************)
Context(section_in_message, last_shown_section, last_shown_section_title, user_message_clean) ==
    [section_in_message |-> section_in_message, last_shown_section |-> last_shown_section,
     last_shown_section_title |-> last_shown_section_title,
     user_message_clean |-> user_message_clean]

\* hashed: the number the message names; first_line_clean: its first line
\* without markers; section_num_by_title: the section that line names
current_context(message, mt, sections, numbered_title, hashed, first_line_clean,
                section_num_by_title, user_actual_request) ==
    LET section_in_message == IF section_num_by_title # None THEN section_num_by_title
                              ELSE hashed
    IN Context(section_in_message, section_in_message,
               IF section_num_by_title # None THEN first_line_clean ELSE numbered_title,
               IF Len(user_actual_request) > 0 THEN user_actual_request ELSE message)
title_in_first_line(message, mt, sections, numbered_title, hashed, first_line_clean) ==
    current_context(message, mt, sections, numbered_title, hashed, first_line_clean,
        IF /\ hashed = None
           /\ Len(first_line_clean) > MinFirstLine
           /\ (\/ AnyIn(SectionContentIndicators, message)
               \/ (/\ ~AnyIn(FirstLineCommandWords, Lower(first_line_clean))
                   /\ Len(first_line_clean) > MinTitleLine))
        THEN find_section_by_title_or_number(sections, first_line_clean) ELSE None,
        IF mt.user_request.ok THEN Strip(group(mt.user_request, message, 1))
        ELSE last_request_line(Reversed(SplitLines(message))))
\* "FIRST: Check if the current message contains section information"
section_in_current_message(message, mt, sections) ==
    LET section_match == mt.section_in_message
        numbered == IF section_match.ok THEN IntOf(group(section_match, message, 1)) ELSE None
        section_title == IF section_match.ok /\ has_group(section_match, 2)
                         THEN Strip(group(section_match, message, 2)) ELSE <<>>
    IN title_in_first_line(message, mt, sections,
           IF ~section_match.ok THEN <<>>
           ELSE IF Len(section_title) > 0 THEN section_title
           ELSE title_from_document(sections, numbered),
           IF numbered = None /\ mt.hash_section.ok
           THEN IntOf(group(mt.hash_section, message, 1)) ELSE numbered,
           Strip(SubNumPrefix(Strip(re_sub_first(RE_hashes, Strip(SplitLines(message)[1]),
                                                 NoFlags)))))

\* the context after the history is consulted: section_from_history runs
\* only when the current message names no section
with_history(current, history, sections) ==
    IF current.last_shown_section = None /\ current.section_in_message = None
       /\ Len(history) > 0
    THEN [current EXCEPT !.last_shown_section = section_from_history(history, sections)]
    ELSE current
derive_context(message, mt, sections, history) ==
    with_history(section_in_current_message(message, mt, sections), history, sections)

(***************************************************************************)
(* send_message: routing.  A Route is what the handler decides before it   *)
(* acts: kind "reply" (response fixed), "update" (handle_update_section is *)
(* called with section_num and instruction), "none" (no response yet).     *)
(***************************************************************************)
Route(kind, response, section_num, instruction) ==
    [kind |-> kind, response |-> response, section_num |-> section_num,
     instruction |-> instruction]
MaxSectionInCommand == 100
S_command_show_usage == <<"U","s","a","g","e",":"," ","s","h","o","w"," ","<","s","e","c","t",
                          "i","o","n"," ","n","u","m","b","e","r",">">>
S_command_update_usage == <<"U","s","a","g","e",":"," ","u","p","d","a","t","e"," ","<","s","e",
                            "c","t","i","o","n"," ","n","u","m","b","e","r",">",":"," ","<","y",
                            "o","u","r"," ","i","n","s","t","r","u","c","t","i","o","n",">">>
S_could_not_parse ==
    <<"C","o","u","l","d"," ","n","o","t"," ","p","a","r","s","e"," ","u","p","d","a","t","e",
      " ","c","o","m","m","a","n","d","."," ","P","l","e","a","s","e"," ","s","p","e","c","i",
      "f","y"," ","t","h","e"," ","s","e","c","t","i","o","n"," ","n","u","m","b","e","r"," ",
      "o","r"," ","n","a","m","e"," ","a","n","d"," ","w","h","a","t"," ","t","o"," ","c","h",
      "a","n","g","e","."," ","E","x","a","m","p","l","e","s",":","\n","-"," ","u","p","d","a",
      "t","e"," ","s","e","c","t","i","o","n"," ","4",":"," ","c","h","a","n","g","e"," ","s",
      "a","r","a","h"," ","t","o"," ","a","m","a","n","\n","-"," ","u","p","d","a","t","e"," ",
      "s","e","c","t","i","o","n"," ","s","t","a","k","e","h","o","l","d","e","r","s",":"," ",
      "c","h","a","n","g","e"," ","s","a","r","a","h"," ","t","o"," ","a","m","a","n","\n","-",
      " ","i","n"," ","s","e","c","t","i","o","n"," ","4"," ","c","h","a","n","g","e"," ","s",
      "a","r","a","h"," ","t","o"," ","a","m","a","n","\n","-"," ","c","h","a","n","g","e"," ",
      "s","a","r","a","h"," ","t","o"," ","a","m","a","n"," ","i","n"," ","s","e","c","t","i",
      "o","n"," ","4","\n","-"," ","u","p","d","a","t","e"," ","s","a","r","a","h"," ","t","o",
      " ","a","m","a","n"," ","i","n"," ","s","e","c","t","i","o","n"," ","s","t","a","k","e",
      "h","o","l","d","e","r","s">>

\* use_command: a command is given and holds no number of three or more
\* digits above 100
use_command(command) ==
    LET suspicious_match == re_search(RE_suspicious, command, NoFlags) IN
    /\ Len(command) > 0
    /\ ~(suspicious_match.ok /\ IntOf(group(suspicious_match, command, 1)) > MaxSectionInCommand)

\* "Use explicit command from agent"; kind "none": unknown command, the
\* message is parsed instead
command_route(command, sections) ==
    LET words == SplitWords(command)
        match == re_match(RE_command_update, command, IgnoreCase)
    IN IF command = <<"l","i","s","t">>
       THEN Route("reply", list_text(handle_list_sections(sections)), None, <<>>)
       ELSE IF StartsWith(command, <<"s","h","o","w"," ">>)
       THEN IF Len(words) >= 2 /\ IsIntText(words[2])
            THEN Route("reply", show_text(handle_show_section(sections, IntOf(words[2]))),
                       None, <<>>)
            ELSE Route("reply", S_command_show_usage, None, <<>>)
       ELSE IF StartsWith(command, <<"u","p","d","a","t","e"," ">>)
       THEN IF match.ok
            THEN Route("update", <<>>, IntOf(group(match, command, 1)),
                       group(match, command, 2))
            ELSE Route("reply", S_command_update_usage, None, <<>>)
       ELSE Route("none", <<>>, None, <<>>)

\* the update branch of the message parsing, after the patterns
update_route(message, mt, parsed) ==
    LET fallback == mt.pattern5_fallback IN
    IF parsed.section_num # None /\ Len(parsed.instruction) > 0
    THEN Route("update", <<>>, parsed.section_num, parsed.instruction)
    ELSE IF fallback.ok
    THEN Route("update", <<>>, IntOf(group(fallback, message, 3)),
               ChangeInstruction(Strip(group(fallback, message, 1)),
                                 Strip(group(fallback, message, 2))))
    ELSE IF Len(parsed.section_title) > 0
    THEN Route("reply", <<"S","e","c","t","i","o","n"," ","'">> \o parsed.section_title
                          \o <<"'"," ","n","o","t"," ","f","o","u","n","d","."," ","U","s","e",
                               " ","'","l","i","s","t","'"," ","t","o"," ","s","e","e"," ","a",
                               "l","l"," ","s","e","c","t","i","o","n","s",".">>, None, <<>>)
    ELSE Route("reply", S_could_not_parse, None, <<>>)

\* "Parse message directly": message is user_message_clean after the context
\* derivation, user_message the message as received
Parse(route, question) == [route |-> route, is_question |-> question]
message_route(message, mt, user_message, sections, history, context) ==
    LET lower == Lower(message)
        question == is_question(message)
    IN IF lower = <<"l","i","s","t">>
       THEN Parse(Route("reply", list_text(handle_list_sections(sections)), None, <<>>), FALSE)
       ELSE IF is_show(message)
       THEN Parse(Route("reply", show_branch(message, user_message, sections, history),
                        None, <<>>), FALSE)
       ELSE IF question /\ ~AnyIn(EditWords, lower)
       THEN Parse(Route("none", <<>>, None, <<>>), TRUE)
       ELSE IF AnyIn(EditWords, lower)
       THEN Parse(update_route(message, mt,
                        update_patterns(message, mt, sections, context.last_shown_section,
                                        context.last_shown_section_title)),
                  question)
       ELSE Parse(Route("none", <<>>, None, <<>>), question)

(***************************************************************************)
(* The messages, commands and documents the requests are drawn from.       *)
(***************************************************************************)
M_blank == <<" "," ">>
M_list == <<"l","i","s","t">>
M_prefixed_list == <<"[","B","R","D","_","I","D",":"," ","7","f","3","a","]"," ","l","i","s","t">>
M_list_all == <<"l","i","s","t"," ","a","l","l"," ","s","e","c","t","i","o","n","s">>
M_show_all == <<"s","h","o","w"," ","a","l","l"," ","s","e","c","t","i","o","n","s">>
M_show_2 == <<"s","h","o","w"," ","2">>
M_show_updated == <<"s","h","o","w"," ","m","e"," ","u","p","d","a","t","e","d"," ","s","e","c",
                    "t","i","o","n">>
M_update_1 == <<"u","p","d","a","t","e"," ","s","e","c","t","i","o","n"," ","1",":"," ","a","d",
                "d"," ","d","e","t","a","i","l">>
M_update_2 == <<"u","p","d","a","t","e"," ","s","e","c","t","i","o","n"," ","2",":"," ","a","d",
                "d"," ","d","e","t","a","i","l">>
M_change_here == <<"c","h","a","n","g","e"," ","x"," ","t","o"," ","y"," ","h","e","r","e">>
M_what_changes == <<"w","h","a","t"," ","c","h","a","n","g","e","s"," ","d","i","d"," ","i"," ",
                    "m","a","k","e"," ","i","n"," ","s","e","c","t","i","o","n"," ","2"," ","t",
                    "o","d","a","y">>
M_which_updated == <<"w","h","i","c","h"," ","s","e","c","t","i","o","n","s"," ","h","a","v",
                     "e"," ","i"," ","u","p","d","a","t","e","d">>
M_what_is == <<"w","h","a","t"," ","i","s"," ","i","n"," ","s","e","c","t","i","o","n"," ","2">>
M_hello == <<"h","e","l","l","o">>
AllMessages ==
    {M_blank, M_list, M_prefixed_list, M_list_all, M_show_all, M_show_2, M_show_updated,
     M_update_1, M_update_2, M_change_here, M_what_changes, M_which_updated, M_what_is,
     M_hello}

NoCommand == <<>>
C_list == <<"l","i","s","t">>
C_update_2 == <<"u","p","d","a","t","e"," ","2",":"," ","a","d","d"," ","d","e","t","a","i","l">>
C_show_832 == <<"s","h","o","w"," ","8","3","2">>

\* user_message_clean of a received message
clean_message(received) == Strip(re_sub_first(RE_brd_id_prefix, Strip(received), NoFlags))
\* the texts whose pattern matches are tabulated
KnownTexts == {clean_message(m) : m \in AllMessages}
PatternTable == [text \in KnownTexts |-> text_matches(text)]

(***************************************************************************)
(* send_message: acting on the route and answering.                        *)
(***************************************************************************)
\* the matches of the handler's patterns on a text of the current message
matches_in(table, text) ==
    IF text \in DOMAIN table THEN table[text] ELSE text_matches(text)
Matches(text) == matches_in(PatternTable, text)

\* what the update step of a request did.  raised: an exception left the
\* step and reaches the handler's outer "except"
Acted(response, brd_updated, store, sections, update_called, generation_called,
      structure_saved, text_saved, raised, asked) ==
    [response |-> response, brd_updated |-> brd_updated, store |-> store,
     sections |-> sections, update_called |-> update_called,
     generation_called |-> generation_called, structure_saved |-> structure_saved,
     text_saved |-> text_saved, raised |-> raised, asked |-> asked]
NotActed(response, store, sections) ==
    Acted(response, FALSE, store, sections, FALSE, FALSE, FALSE, FALSE, FALSE, <<>>)
S_save_failed == <<"E","r","r","o","r",":"," ","F","a","i","l","e","d"," ","t","o"," ","s","a",
                   "v","e"," ","B","R","D"," ","u","p","d","a","t","e","."," ","e","r","r","o",
                   "r">>

\* handle_update_section and the two saves.  by_command: the command path
\* saves the structure outside any "try"
\* result: what handle_update_section returned; saved, text_saved: the two
\* writes of the updated document
\* an update step that answers with the confirmation whether or not the
\* structure was written
acted_on_confirming_unsaved(store, by_command, invoked, result, saved, text_saved) ==
    LET asked == IF invoked THEN <<"gen">> ELSE <<>>
    IN IF ~result.success
       THEN Acted(message_text(result.message), FALSE, store, result.brd_data, TRUE, invoked,
                  FALSE, FALSE, FALSE, asked)
       ELSE IF ~saved.ok
       THEN Acted(message_text(result.message), FALSE, store, result.brd_data,
                  TRUE, invoked, FALSE, FALSE, FALSE, asked \o <<"put_structure">>)
       ELSE Acted(message_text(result.message), TRUE, text_saved.store, result.brd_data,
                  TRUE, invoked, TRUE, text_saved.ok, FALSE,
                  asked \o <<"put_structure", "put_text">>)
acted_on(store, by_command, invoked, result, saved, text_saved) ==
    LET asked == IF invoked THEN <<"gen">> ELSE <<>>
    IN IF ~result.success
       THEN Acted(message_text(result.message), FALSE, store, result.brd_data, TRUE, invoked,
                  FALSE, FALSE, FALSE, asked)
       ELSE IF ~saved.ok
       THEN Acted(IF by_command THEN <<>> ELSE S_save_failed, FALSE, store, result.brd_data,
                  TRUE, invoked, FALSE, FALSE, by_command, asked \o <<"put_structure">>)
       ELSE Acted(message_text(result.message), TRUE, text_saved.store, result.brd_data,
                  TRUE, invoked, TRUE, text_saved.ok, FALSE,
                  asked \o <<"put_structure", "put_text">>)
act_on_saved(store, by_command, invoked, result, saved, env) ==
    acted_on(store, by_command, invoked, result, saved,
             save_brd_text_to_s3(saved.store, result.updated_brd, env))
act_on_result(store, by_command, invoked, result, env) ==
    act_on_saved(store, by_command, invoked, result,
                 save_brd_to_s3(store, result.updated_brd, env), env)
act_on_update(sections, store, section_num, instruction, by_command, env) ==
    act_on_result(store, by_command,
                  update_invokes_generation(sections, section_num,
                                            is_full_content(instruction)),
                  handle_update_section(sections, section_num, is_full_content(instruction),
                                        env.gen),
                  env)

act(route, sections, store, by_command, env) ==
    IF route.kind = "update"
    THEN act_on_update(sections, store, route.section_num, route.instruction, by_command, env)
    ELSE NotActed(route.response, store, sections)

\* the response of a request: an HTTP status with its body, the store and the
\* log it leaves, and what the handler did on the way
NoContext == Context(None, None, <<>>, <<>>)
NoGeneral == General("none", <<>>, None, FALSE, <<>>, <<>>)
Out(status, error, response, brd_updated, store, events, stages, rebuild_calls, sections,
    history, context, by_command, question, acted, general, asked) ==
    [status |-> status, error |-> error, response |-> response, brd_updated |-> brd_updated,
     store |-> store, events |-> events, stages |-> stages, rebuild_calls |-> rebuild_calls,
     sections |-> sections, history |-> history, context |-> context,
     by_command |-> by_command, is_question |-> question,
     update_called |-> acted.update_called, generation_called |-> acted.generation_called,
     structure_saved |-> acted.structure_saved, text_saved |-> acted.text_saved,
     general |-> general, asked |-> asked]
Refused(status, error, store, events, load) ==
    Out(status, error, <<>>, FALSE, store, events, load.stages, load.rebuild_calls, <<>>, <<>>,
        NoContext, FALSE, FALSE, NotActed(<<>>, store, <<>>), NoGeneral, load.asked)
NotLoaded == Load("none", <<>>, <<>>, <<>>, 0, <<>>)

S_required == <<"m","e","s","s","a","g","e"," ","a","n","d"," ","b","r","d","_","i","d"," ","a",
                "r","e"," ","r","e","q","u","i","r","e","d">>
S_not_found == <<"B","R","D"," ","n","o","t"," ","f","o","u","n","d">>
S_reconstruction_failed == <<"B","R","D"," ","s","t","r","u","c","t","u","r","e"," ","r","e",
                             "c","o","n","s","t","r","u","c","t","i","o","n"," ","f","a","i",
                             "l","e","d">>
S_internal_error == <<"I","n","t","e","r","n","a","l"," ","s","e","r","v","e","r"," ","e","r",
                      "r","o","r">>

\* the handler once the document is loaded
\* by steps, each naming what the steps after it read: the context, the
\* route of the command, the parse of the message, the update and the answer
respond(load, events, history, context, by_command, parse, acted, general, env) ==
    LET sections == load.sections
        message == context.user_message_clean
        \* the command path never binds is_question, which the condition of the
        \* general-question block reads once the response is not empty
        unbound == by_command /\ Len(acted.response) > 0
        to_general == Len(acted.response) = 0 \/ (parse.is_question /\ ~acted.brd_updated)
        answered == IF general.kind = "reply" THEN general.response
                    ELSE IF env.answer.kind = "text" THEN env.answer.text
                    ELSE answer_fallback(message)
        assistant_response == IF to_general THEN answered ELSE acted.response
        asked == load.asked \o acted.asked
                   \o (IF to_general /\ general.kind = "ask" THEN <<"answer">> ELSE <<>>)
    IN IF acted.raised \/ unbound
       THEN Out(500, S_internal_error, <<>>, FALSE, acted.store, events, load.stages,
                load.rebuild_calls, sections, history, context, by_command, FALSE, acted,
                NoGeneral, load.asked \o acted.asked)
       ELSE Out(200, <<>>, assistant_response, acted.brd_updated, acted.store,
                add_message_to_memory(events, "assistant", assistant_response),
                load.stages, load.rebuild_calls, sections, history, context, by_command,
                parse.is_question, acted, IF to_general THEN general ELSE NoGeneral, asked)
answer_acted(load, events, history, context, by_command, parse, acted, env) ==
    respond(load, events, history, context, by_command, parse, acted,
            general_question(context.user_message_clean, acted.sections, history), env)
answer_parsed(load, events, history, context, by_command, parse, env) ==
    answer_acted(load, events, history, context, by_command, parse,
                 act(parse.route, load.sections, load.store, by_command, env), env)
answer_commanded(load, events, history, user_message, context, commanded, env) ==
    answer_parsed(load, events, history, context, commanded.kind # "none",
                  IF commanded.kind # "none" THEN Parse(commanded, FALSE)
                  ELSE message_route(context.user_message_clean,
                                     Matches(context.user_message_clean), user_message,
                                     load.sections, history, context),
                  env)
answer_in_context(load, events, history, user_message, command, context, env) ==
    answer_commanded(load, events, history, user_message, context,
                     IF use_command(command) THEN command_route(command, load.sections)
                     ELSE Route("none", <<>>, None, <<>>),
                     env)
answer_request(load, events, history, user_message, user_message_clean, command, env) ==
    answer_in_context(load, events, history, user_message, command,
                      derive_context(user_message_clean, Matches(user_message_clean),
                                     load.sections, history),
                      env)

\* action "send_message" of lambda_handler
\* logged: the log once the user message is stored; load: the document
respond_to(store, events, logged, load, user_message, user_message_clean, command, env) ==
    IF Len(user_message) = 0 THEN Refused(400, S_required, store, events, NotLoaded)
    ELSE IF load.outcome = "internal_error"
    THEN Refused(500, S_internal_error, load.store, logged, load)
    ELSE IF load.outcome = "not_found"
    THEN Refused(404, S_not_found, load.store, logged, load)
    ELSE IF load.outcome = "regenerate"
    THEN Refused(500, S_reconstruction_failed, load.store, logged, load)
    ELSE answer_request(load, logged, get_session_history(logged), user_message,
                        user_message_clean, command, env)
receive(store, events, received, user_message_clean, command, env) ==
    respond_to(store, events, add_message_to_memory(events, "user", user_message_clean),
               load_brd(store, env), Strip(received), user_message_clean, command, env)
send_message(store, events, received, command, env) ==
    receive(store, events, received, clean_message(received), command, env)

(***************************************************************************)
(* SpecDoc: the section operations called on a Document.                   *)
(***************************************************************************)
Call(op, n, ident, full_content, gen, before) ==
    [op |-> op, n |-> n, ident |-> ident, full_content |-> full_content,
     gen |-> gen, before |-> before]

InitDoc ==
    /\ brd_data \in InitialDocuments
    /\ call = Call("none", 0, <<>>, FALSE, NotInvoked, <<>>)
    /\ ret = [kind |-> "none"]
    /\ inflight = <<>>
    /\ s3 = Store(Stored("missing", <<>>), StoredText("missing", <<>>))
    /\ log = <<>>
    /\ req = [kind |-> "none"]

ListSections ==
    /\ call.op = "none"
    /\ call' = Call("list", 0, <<>>, FALSE, NotInvoked, brd_data)
    /\ ret' = handle_list_sections(brd_data)
    /\ UNCHANGED <<brd_data, s3, log, req, inflight>>

ShowSection ==
    \E n \in (0 - 1)..(MaxSections + 1) :
        /\ call.op = "none"
        /\ call' = Call("show", n, <<>>, FALSE, NotInvoked, brd_data)
        /\ ret' = handle_show_section(brd_data, n)
        /\ UNCHANGED <<brd_data, s3, log, req, inflight>>

UpdateSection ==
    \E n \in 0..(MaxSections + 1), full_content \in BOOLEAN :
      call.op = "none" /\
        \E gen \in (IF update_invokes_generation(brd_data, n, full_content)
                    THEN Generations ELSE {NotInvoked}) :
            LET r == handle_update_section(brd_data, n, full_content, gen) IN
            /\ call.op = "none"
            /\ call' = Call("update", n, <<>>, full_content, gen, brd_data)
            /\ ret' = [success |-> r.success, message |-> r.message,
                       has_updated_brd |-> r.has_updated_brd, updated_brd |-> r.updated_brd]
            /\ brd_data' = r.brd_data
            /\ UNCHANGED <<s3, log, req, inflight>>

FindSection ==
    \E ident \in Identifiers :
        /\ call.op = "none"
        /\ call' = Call("find", 0, ident, FALSE, NotInvoked, brd_data)
        /\ ret' = find_section_by_title_or_number(brd_data, ident)
        /\ UNCHANGED <<brd_data, s3, log, req, inflight>>

\* the caller takes the result; the next operation sees the Document as it is now
Return ==
    /\ call.op # "none"
    /\ call' = Call("none", 0, <<>>, FALSE, NotInvoked, <<>>)
    /\ ret' = [kind |-> "none"]
    /\ UNCHANGED <<brd_data, s3, log, req, inflight>>

NextDoc == ListSections \/ ShowSection \/ UpdateSection \/ FindSection \/ Return

SpecDoc == InitDoc /\ [][NextDoc]_vars

(***************************************************************************)
(* Spec: send_message requests of one session against one document.  The   *)
(* memory service is taken to be healthy (every event is stored and        *)
(* listed); S3 writes and the generation client may fail.                  *)
(***************************************************************************)
DocA ==
    << [title |-> <<"1","."," ","S","c","o","p","e">>, content |-> OrigContent(1)],
       [title |-> <<"2","."," ","G","o","a","l","s">>, content |-> OrigContent(2)] >>
DocB ==
    << [title |-> <<"P","a","y","m","e","n","t","s"," ","B","R","D">>, content |-> OrigContent(1)],
       [title |-> <<"1","."," ","S","c","o","p","e">>, content |-> OrigContent(2)],
       [title |-> <<"2","."," ","G","o","a","l","s">>, content |-> OrigContent(3)] >>
TextFree == <<"j","u","s","t"," ","s","o","m","e"," ","n","o","t","e","s","\n","w","i","t","h",
              " ","n","o"," ","h","e","a","d","e","r","s","\n">>
TextHeads == <<"i","n","t","r","o","\n","1","."," ","S","c","o","p","e","\n","f","i","r","s",
               "t","\n","s","e","c","o","n","d","\n","\n","#","#"," ","G","o","a","l","s","\n",
               "t","h","i","r","d","\n">>

Healthy(doc) == Store(Stored("ok", doc), StoredText("ok", render_brd_to_text(doc)))
InitialStores ==
    { Healthy(DocA), Healthy(DocB),
      Store(Stored("missing", <<>>), StoredText("ok", TextHeads)),
      Store(Stored("missing", <<>>), StoredText("ok", TextFree)),
      Store(Stored("missing", <<>>), StoredText("missing", <<>>)),
      Store(Stored("corrupt", <<>>), StoredText("ok", TextHeads)) }

Request(received, command) == [received |-> received, command |-> command]
Requests ==
    { Request(m, NoCommand) :
        m \in {M_blank, M_list, M_prefixed_list, M_list_all, M_show_all, M_show_2,
               M_update_2, M_what_changes, M_which_updated, M_what_is, M_hello} }
    \cup { Request(M_list, C_list), Request(M_update_2, C_update_2),
           Request(M_list, C_show_832) }
SessionRequests ==
    { Request(m, NoCommand) :
        m \in {M_list, M_show_2, M_show_updated, M_update_1, M_update_2,
               M_change_here, M_which_updated} }

A_text == Answer("text", <<"S","e","c","t","i","o","n"," ","2"," ","h","o","l","d","s"," ","t",
                           "h","e"," ","g","o","a","l","s",".">>)
\* what the environment may answer, per input the handler consults
Choices ==
    [rebuild1 |-> {NoRebuild, Rebuilt("document", DocA)},
     rebuild2 |-> {NoRebuild, Rebuilt("document", DocA)},
     gen |-> { Gen("raise", FALSE, FALSE, <<>>, <<>>),
               Gen("object", TRUE, TRUE, T_goals, NewContent),
               Gen("object", TRUE, TRUE, T_Budget, NewContent) },
     answer |-> {NoAnswer, A_text},
     put_structure |-> BOOLEAN,
     put_text |-> BOOLEAN]
SessionChoices ==
    [rebuild1 |-> {NoRebuild},
     rebuild2 |-> {NoRebuild},
     gen |-> { Gen("raise", FALSE, FALSE, <<>>, <<>>),
               Gen("object", TRUE, TRUE, T_Scope, NewContent),
               Gen("object", TRUE, TRUE, T_goals, NewContent) },
     answer |-> {A_text},
     put_structure |-> {TRUE},
     put_text |-> {TRUE}]

\* every run of one request: the environment is asked input by input, in the
\* order the handler reaches them, and each answer is one of choices
RECURSIVE Outcomes(_, _, _, _, _, _, _)
\* out: the run under env; open: the inputs it consulted that are not decided
Branches(out, open, store, events, received, command, env, decided, choices) ==
    IF Len(open) = 0
    THEN { [env |-> env, out |-> out] }
    ELSE UNION { Outcomes(store, events, received, command,
                          [env EXCEPT ![open[1]] = c], decided \cup {open[1]}, choices) :
                 c \in choices[open[1]] }
Undecided(out, decided) == SelectSeq(out.asked, LAMBDA a : a \notin decided)
Consulted(out, store, events, received, command, env, decided, choices) ==
    Branches(out, Undecided(out, decided), store, events, received, command, env, decided,
             choices)
Outcomes(store, events, received, command, env, decided, choices) ==
    Consulted(send_message(store, events, received, command, env), store, events,
              received, command, env, decided, choices)

NoRequest == [kind |-> "none"]
Sent(request, before, log_before, run) ==
    [kind |-> "send_message", received |-> request.received, command |-> request.command,
     before |-> before, log_before |-> log_before, env |-> run.env, out |-> run.out]

SendMessage(requests, choices, max) ==
    /\ Len(log) + 2 <= max
    /\ \E request \in requests :
         \E run \in Outcomes(s3, log, request.received, request.command, DefaultEnv, {},
                             choices) :
            /\ s3' = run.out.store
            /\ log' = run.out.events
            /\ req' = Sent(request, s3, log, run)
    /\ UNCHANGED <<brd_data, call, ret, inflight>>

Init ==
    /\ s3 \in InitialStores
    /\ log = <<>>
    /\ req = NoRequest
    /\ brd_data = <<>>
    /\ call = Call("none", 0, <<>>, FALSE, NotInvoked, <<>>)
    /\ ret = [kind |-> "none"]
    /\ inflight = <<>>

SendAny == SendMessage(Requests, Choices, MaxLog)
Next == SendAny
Spec == Init /\ [][Next]_vars

InitSession ==
    /\ s3 \in {Healthy(DocA), Healthy(DocB)}
    /\ log = <<>>
    /\ req = NoRequest
    /\ brd_data = <<>>
    /\ call = Call("none", 0, <<>>, FALSE, NotInvoked, <<>>)
    /\ ret = [kind |-> "none"]
    /\ inflight = <<>>

SendInSession == SendMessage(SessionRequests, SessionChoices, MaxSessionLog)
NextSession == SendInSession
SpecSession == InitSession /\ [][NextSession]_vars

(***************************************************************************)
(* convert_brd_text_to_json: the extraction of a JSON text from the        *)
(* generation output and the attempts to parse it.  Positions are          *)
(* zero-based as in the code: s[i] of the code is s[i + 1] here.  The      *)
(* decoder is json's: objects, arrays, strings, integers and the three     *)
(* literals, with the position of the error where a parse fails.           *)
(***************************************************************************)
At(s, i) == IF i >= 0 /\ i < Len(s) THEN s[i + 1] ELSE ""
Count(s, c) == Cardinality({i \in 1..Len(s) : s[i] = c})
RECURSIVE Times(_, _)
Times(c, n) == IF n <= 0 THEN <<>> ELSE <<c>> \o Times(c, n - 1)
\* str.find(c) and str.rfind(c): the index, or -1
RECURSIVE FindFrom(_, _, _)
FindFrom(s, c, i) ==
    IF i >= Len(s) THEN 0 - 1 ELSE IF s[i + 1] = c THEN i ELSE FindFrom(s, c, i + 1)
RECURSIVE RFindFrom(_, _, _)
RFindFrom(s, c, i) ==
    IF i < 0 THEN 0 - 1 ELSE IF s[i + 1] = c THEN i ELSE RFindFrom(s, c, i - 1)

\* json.decoder.WHITESPACE.match(s, i).end()
RECURSIVE skip_ws(_, _)
skip_ws(s, i) == IF At(s, i) \in Whitespace THEN skip_ws(s, i + 1) ELSE i

\* a parsed value: where it ends, its kind, and for an object its keys and
\* those of its keys that hold an array; or the position of the error
JOk(end, kind, keys, lists) ==
    [ok |-> TRUE, end |-> end, pos |-> 0, kind |-> kind, keys |-> keys, lists |-> lists]
JErr(pos) == [ok |-> FALSE, end |-> 0, pos |-> pos, kind |-> "error", keys |-> {}, lists |-> {}]

SimpleEscapes == {"\"", "\\", "/", "b", "f", "n", "r", "t"}
\* scanstring(s, end): i runs over the characters after the opening quote at begin
RECURSIVE scanstring_from(_, _, _)
scanstring_from(s, i, begin) ==
    IF i >= Len(s) THEN JErr(begin)                       \* Unterminated string starting at
    ELSE IF s[i + 1] = "\"" THEN JOk(i + 1, "string", {}, {})
    ELSE IF s[i + 1] \in {"\n", "\t", "\r"} THEN JErr(i)  \* Invalid control character at
    ELSE IF s[i + 1] = "\\"
         THEN IF i + 1 >= Len(s) THEN JErr(begin)
              ELSE IF s[i + 2] \in SimpleEscapes THEN scanstring_from(s, i + 2, begin)
              ELSE JErr(i)                                \* Invalid \escape
    ELSE scanstring_from(s, i + 1, begin)
scanstring(s, end) == scanstring_from(s, end, end - 1)

S_null == <<"n","u","l","l">>
S_true == <<"t","r","u","e">>
S_false == <<"f","a","l","s","e">>
LitAtIndex(s, i, word) == i + Len(word) <= Len(s) /\ SubSeq(s, i + 1, i + Len(word)) = word
RECURSIVE DigitsEnd(_, _)
DigitsEnd(s, i) == IF At(s, i) \in Digits THEN DigitsEnd(s, i + 1) ELSE i
\* NUMBER_RE without fraction and exponent: -?(0|[1-9]\d*); the end, or -1
NumberEnd(s, i) ==
    LET d == IF At(s, i) = "-" THEN i + 1 ELSE i IN
    IF At(s, d) = "0" THEN d + 1
    ELSE IF At(s, d) \in Digits THEN DigitsEnd(s, d)
    ELSE 0 - 1

RECURSIVE scan_once(_, _)
RECURSIVE object_members(_, _, _, _)
RECURSIVE array_items(_, _)
\* JSONObject(s_and_end, ...): end is the index after the "{"
JSONObject(s, end) ==
    LET e1 == skip_ws(s, end) IN
    IF At(s, e1) = "}" THEN JOk(e1 + 1, "object", {}, {})
    ELSE IF At(s, e1) # "\"" THEN JErr(e1)   \* Expecting property name enclosed in double quotes
    ELSE object_members(s, e1 + 1, {}, {})
\* the loop of JSONObject; end is the index after the opening quote of a key
object_members(s, end, keys, lists) ==
    LET k == scanstring(s, end) IN
    IF ~k.ok THEN k
    ELSE LET key == SubSeq(s, end + 1, k.end - 1)
             e2 == skip_ws(s, k.end)
         IN IF At(s, e2) # ":" THEN JErr(e2)               \* Expecting ':' delimiter
            ELSE LET v == scan_once(s, skip_ws(s, e2 + 1)) IN
                 IF ~v.ok THEN v
                 ELSE LET e4 == skip_ws(s, v.end)
                          keys2 == keys \cup {key}
                          lists2 == IF v.kind = "array" THEN lists \cup {key}
                                    ELSE lists \ {key}
                      IN IF At(s, e4) = "}" THEN JOk(e4 + 1, "object", keys2, lists2)
                         ELSE IF At(s, e4) # "," THEN JErr(e4)  \* Expecting ',' delimiter
                         ELSE LET e5 == skip_ws(s, e4 + 1) IN
                              IF At(s, e5) # "\"" THEN JErr(e5)
                              ELSE object_members(s, e5 + 1, keys2, lists2)
\* JSONArray(s_and_end, ...): end is the index after the "["
JSONArray(s, end) ==
    LET e1 == skip_ws(s, end) IN
    IF At(s, e1) = "]" THEN JOk(e1 + 1, "array", {}, {}) ELSE array_items(s, e1)
array_items(s, end) ==
    LET v == scan_once(s, end) IN
    IF ~v.ok THEN v
    ELSE LET e2 == skip_ws(s, v.end) IN
         IF At(s, e2) = "]" THEN JOk(e2 + 1, "array", {}, {})
         ELSE IF At(s, e2) # "," THEN JErr(e2)              \* Expecting ',' delimiter
         ELSE array_items(s, skip_ws(s, e2 + 1))
\* scan_once(s, idx); a StopIteration becomes "Expecting value" at its index
scan_once(s, idx) ==
    IF idx >= Len(s) THEN JErr(idx)
    ELSE IF s[idx + 1] = "\"" THEN scanstring(s, idx + 1)
    ELSE IF s[idx + 1] = "{" THEN JSONObject(s, idx + 1)
    ELSE IF s[idx + 1] = "[" THEN JSONArray(s, idx + 1)
    ELSE IF LitAtIndex(s, idx, S_null) THEN JOk(idx + 4, "literal", {}, {})
    ELSE IF LitAtIndex(s, idx, S_true) THEN JOk(idx + 4, "literal", {}, {})
    ELSE IF LitAtIndex(s, idx, S_false) THEN JOk(idx + 5, "literal", {}, {})
    ELSE IF NumberEnd(s, idx) >= 0 THEN JOk(NumberEnd(s, idx), "number", {}, {})
    ELSE JErr(idx)

\* JSONDecoder().raw_decode(s): the value at index 0, whatever follows it
raw_decode(s) == scan_once(s, 0)
\* json.loads(s): the value, with nothing but whitespace around it
json_loads(s) ==
    LET v == scan_once(s, skip_ws(s, 0)) IN
    IF ~v.ok THEN v
    ELSE IF skip_ws(s, v.end) # Len(s) THEN JErr(skip_ws(s, v.end))   \* Extra data
    ELSE v

DotAll == Flags(FALSE, TRUE, FALSE)
\* r'```(?:json)?\s*(\{.*?\})\s*```', the backquote written "U+0060"
RE_code_block ==
    <<Lit(<<"U+0060","U+0060","U+0060">>), Opt(<<Lit(<<"j","s","o","n">>)>>), OptSpaces,
      Group(1, <<Lit(<<"{">>), LazyStar(Dot), Lit(<<"}">>)>>), OptSpaces, Lit(<<"U+0060","U+0060",
                                                                            "U+0060">>)>>
\* Strategy 2: the index of the "}" that balances the first "{", or -1
RECURSIVE brace_end(_, _, _)
brace_end(raw_response, i, brace_count) ==
    IF i >= Len(raw_response) THEN 0 - 1
    ELSE IF raw_response[i + 1] = "{" THEN brace_end(raw_response, i + 1, brace_count + 1)
    ELSE IF raw_response[i + 1] = "}"
         THEN IF brace_count = 1 THEN i
              ELSE brace_end(raw_response, i + 1, brace_count - 1)
    ELSE brace_end(raw_response, i + 1, brace_count)
\* the three extraction strategies; the empty text stands for "not found"
extract_json(raw_response, code_block_match) ==
    LET brace_start == FindFrom(raw_response, "{", 0)
        balanced == IF brace_start = 0 - 1 THEN 0 - 1
                    ELSE brace_end(raw_response, brace_start, 0)
        last_close == RFindFrom(raw_response, "}", Len(raw_response) - 1)
    IN IF code_block_match.ok THEN group(code_block_match, raw_response, 1)
       ELSE IF balanced # 0 - 1 THEN SubSeq(raw_response, brace_start + 1, balanced + 1)
       \* r"\{.*\}" with DOTALL: from the first "{" to the last "}"
       ELSE IF brace_start # 0 - 1 /\ last_close > brace_start
       THEN SubSeq(raw_response, brace_start + 1, last_close + 1)
       ELSE <<>>

\* re.sub(r',\s*([}\]])', r'\1', json_str)
RECURSIVE strip_trailing_commas(_, _)
strip_trailing_commas(json_str, i) ==
    IF i >= Len(json_str) THEN <<>>
    ELSE LET closer == skip_ws(json_str, i + 1) IN
         IF json_str[i + 1] = "," /\ At(json_str, closer) \in {"}", "]"}
         THEN <<At(json_str, closer)>> \o strip_trailing_commas(json_str, closer + 1)
         ELSE <<json_str[i + 1]>> \o strip_trailing_commas(json_str, i + 1)
\* "Add missing closing braces", then "Also check brackets"
close_opens(fixed_json) ==
    LET missing == Count(fixed_json, "{") - Count(fixed_json, "}")
        braced == fixed_json \o Times("}", missing)
    IN IF missing > 0
       THEN braced \o Times("]", Count(braced, "[") - Count(braced, "]"))
       ELSE fixed_json
fix_common_issues(json_str) == close_opens(strip_trailing_commas(json_str, 0))

CutLookBack == 1000
\* the "safe cut point": the index after the last closer at or before the
\* error whose prefix has as many closers as openers, or None
RECURSIVE safe_cut(_, _, _)
safe_cut(json_str, i, search_start) ==
    IF i <= search_start THEN None
    ELSE IF /\ json_str[i + 1] \in {"}", "]"}
            /\ Count(SubSeq(json_str, 1, i + 1), "{") = Count(SubSeq(json_str, 1, i + 1), "}")
            /\ Count(SubSeq(json_str, 1, i + 1), "[") = Count(SubSeq(json_str, 1, i + 1), "]")
         THEN i + 1
    ELSE safe_cut(json_str, i - 1, search_start)
truncated_parse(json_str, error_pos) ==
    LET cut == IF error_pos < Len(json_str)
               THEN safe_cut(json_str, error_pos,
                             IF error_pos - CutLookBack > 0 THEN error_pos - CutLookBack ELSE 0)
               ELSE None
    IN IF cut = None THEN JErr(error_pos) ELSE json_loads(SubSeq(json_str, 1, cut))

\* what convert_brd_text_to_json makes of the generation output: a dict
\* with a "sections" list, or RuntimeError.  stage: the attempt that gave
\* the parsed value
S_sections == <<"s","e","c","t","i","o","n","s">>
Converted(kind, stage, json_str, structured) ==
    [kind |-> kind, stage |-> stage, json_str |-> json_str, structured |-> structured]
checked(stage, json_str, structured) ==
    IF ~structured.ok THEN Converted("raise", "none", json_str, structured)
    ELSE IF structured.kind # "object" \/ S_sections \notin structured.lists
    THEN Converted("raise", stage, json_str, structured)
    ELSE Converted("document", stage, json_str, structured)
parse_attempts(json_str, direct, decoded, fixed) ==
    IF Len(json_str) = 0 THEN Converted("raise", "none", json_str, JErr(0))
    ELSE IF direct.ok THEN checked("direct", json_str, direct)
    ELSE IF decoded.ok THEN checked("decoder", json_str, decoded)
    ELSE IF fixed.ok THEN checked("fixed", json_str, fixed)
    ELSE checked("cut", json_str, truncated_parse(json_str, fixed.pos))
parse_extracted(json_str) ==
    parse_attempts(json_str, json_loads(json_str), raw_decode(json_str),
                   json_loads(fix_common_issues(json_str)))
convert_brd_text_to_json(raw_response) ==
    parse_extracted(extract_json(raw_response, re_search(RE_code_block, raw_response, DotAll)))

(***************************************************************************)
(* SpecJson: convert_brd_text_to_json applied to generation outputs: the   *)
(* well-formed outputs below cut after any number of characters (an output *)
(* that ran into the token limit), and outputs wrapped, followed by text,  *)
(* with trailing commas or without a "sections" list.                      *)
(***************************************************************************)
Out_one == <<"{","\"","s","e","c","t","i","o","n","s","\"",":","[","{","\"","t","i","t","l","e",
             "\"",":","\"","A","\"",",","\"","c","o","n","t","e","n","t","\"",":","[","]","}",
             "]","}">>
Out_two == <<"{","\"","s","e","c","t","i","o","n","s","\"",":","[","{","\"","t","i","t","l","e",
             "\"",":","\"","A","\"",",","\"","c","o","n","t","e","n","t","\"",":","[","]","}",
             ",","{","\"","t","i","t","l","e","\"",":","\"","B","\"",",","\"","c","o","n","t",
             "e","n","t","\"",":","[","]","}","]","}">>
Out_spaced == <<"{","\n"," ","\"","s","e","c","t","i","o","n","s","\"",":"," ","[","\n"," "," ",
                "{","\"","t","i","t","l","e","\"",":"," ","\"","A","\"",","," ","\"","c","o",
                "n","t","e","n","t","\"",":"," ","[","]","}","\n"," ","]","\n","}">>
Out_more_keys == <<"{","\"","s","e","c","t","i","o","n","s","\"",":","[","]",",","\"","a","\"",
                   ":","{","}",",","\"","b","\"",":","{","\"","c","\"",":","[","1",",","2","]",
                   "}","}">>
FullOutputs == {Out_one, Out_two, Out_spaced, Out_more_keys}
OtherResponses ==
    { <<"U+0060","U+0060","U+0060","j","s","o","n","\n">> \o Out_one \o <<"\n","U+0060","U+0060","U+0060">>,
      <<"H","e","r","e"," ","i","s"," ","t","h","e"," ","J","S","O","N",":"," ">> \o Out_one \o <<" ","H","o","p","e"," ","i","t"," ","h","e","l",
                                             "p","s",".">>,
      Out_one \o <<"}">>,
      <<"{","\"","s","e","c","t","i","o","n","s","\"",":","[","{","\"","t","i","t","l","e","\"",
        ":","\"","A","\"",",","\"","c","o","n","t","e","n","t","\"",":","[","]","}",",","]","}">>,
      <<"{","\"","s","e","c","t","i","o","n","s","\"",":","[","{","\"","t","i","t","l","e","\"",
        ":","\"","A","\"",",","}",",","]",",","}">>,
      <<"{","\"","s","e","c","t","i","o","n","s","\"",":","[","{","\"","t","i","t","l","e","\"",
        ":","\"","A","\"","}",",","{","\"","t","i","t","l","e","\"",":","\"","B","\"","}">>,
      <<"{","\"","t","i","t","l","e","\"",":","\"","A","\"","}">>,
      <<"{","\"","s","e","c","t","i","o","n","s","\"",":","\"","n","o","n","e","\"","}">>,
      <<"{","\"","s","e","c","t","i","o","n","s","\"",":","[","]",",","\"","s","e","c","t","i",
        "o","n","s","\"",":","1","}">>,
      <<"{","}">>,
      <<"I"," ","c","a","n","n","o","t"," ","c","o","n","v","e","r","t"," ","t","h","i","s"," ",
        "d","o","c","u","m","e","n","t",".">>,
      <<>> }
Truncations(text) == {SubSeq(text, 1, k) : k \in 0..Len(text)}
RawResponses == UNION {Truncations(text) : text \in FullOutputs} \cup OtherResponses

InitJson ==
    /\ call \in {[op |-> "convert_brd_text_to_json", raw_response |-> r] : r \in RawResponses}
    /\ ret = [kind |-> "none"]
    /\ brd_data = <<>>
    /\ inflight = <<>>
    /\ s3 = Store(Stored("missing", <<>>), StoredText("missing", <<>>))
    /\ log = <<>>
    /\ req = NoRequest

ConvertText ==
    /\ call.op = "convert_brd_text_to_json"
    /\ ret.kind = "none"
    /\ ret' = convert_brd_text_to_json(call.raw_response)
    /\ UNCHANGED <<brd_data, call, s3, log, req, inflight>>
NextJson == ConvertText
SpecJson == InitJson /\ [][NextJson]_vars

(***************************************************************************)
(* SpecPatchJson: the parsing of the generation output in                  *)
(* handle_update_section ("Parse JSON from response" and "Validate         *)
(* structure") applied to outputs holding a {title, content} object:       *)
(* well-formed, cut short, with trailing commas or followed by text.       *)
(***************************************************************************)
S_title == <<"t","i","t","l","e">>
S_content == <<"c","o","n","t","e","n","t">>
\* the Gen kind and keys the parsing yields; the title and content values
\* are not carried here
PatchParse(kind, has_title, has_content) ==
    [kind |-> kind, has_title |-> has_title, has_content |-> has_content]
patch_object(updated_section) ==
    PatchParse("object", S_title \in updated_section.keys, S_content \in updated_section.keys)
patch_attempts(json_str, direct, decoded) ==
    IF Len(json_str) = 0 THEN PatchParse("no_json", FALSE, FALSE)
    ELSE IF direct.ok THEN patch_object(direct)
    ELSE IF decoded.ok THEN patch_object(decoded)
    ELSE PatchParse("bad_json", FALSE, FALSE)
\* json_match = re.search(r'\{.*\}', raw_response, re.DOTALL): from the first
\* "{" to the last "}"
patch_json_str(raw_response, brace_start, last_close) ==
    IF brace_start # 0 - 1 /\ last_close > brace_start
    THEN SubSeq(raw_response, brace_start + 1, last_close + 1)
    ELSE <<>>
patch_parse_extracted(json_str) ==
    patch_attempts(json_str, json_loads(json_str), raw_decode(json_str))
parse_update_response(raw_response) ==
    patch_parse_extracted(patch_json_str(raw_response, FindFrom(raw_response, "{", 0),
                                         RFindFrom(raw_response, "}", Len(raw_response) - 1)))

Patch_one == <<"{","\"","t","i","t","l","e","\"",":","\"","A","\"",",","\"","c","o","n","t","e",
               "n","t","\"",":","[","]","}">>
Patch_blocks == <<"{","\"","t","i","t","l","e","\"",":"," ","\"","A","\"",","," ","\"","c","o",
                  "n","t","e","n","t","\"",":"," ","[","{","\"","t","y","p","e","\"",":"," ",
                  "\"","p","a","r","a","g","r","a","p","h","\"",","," ","\"","t","e","x","t",
                  "\"",":"," ","\"","x","\"","}","]","}">>
PatchOutputs == {Patch_one, Patch_blocks}
OtherPatchResponses ==
    { <<"{","\"","t","i","t","l","e","\"",":","\"","A","\"",",","\"","c","o","n","t","e","n",
        "t","\"",":","[","]",",","}">>,
      <<"{","\"","t","i","t","l","e","\"",":","\"","A","\"",",","\"","c","o","n","t","e","n",
        "t","\"",":","[","{","\"","t","y","p","e","\"",":","\"","b","u","l","l","e","t","\"",
        ",","\"","i","t","e","m","s","\"",":","[","\"","a","\"",",","]","}","]","}">>,
      <<"H","e","r","e"," ","i","s"," ","t","h","e"," ","s","e","c","t","i","o","n",":"," ">> \o Patch_one \o <<" ","D","o","n","e",".">>,
      <<"x"," ">> \o Patch_one \o <<" ","y"," ","}"," ","z">>,
      <<"U+0060","U+0060","U+0060","j","s","o","n","\n">> \o Patch_one \o <<"\n","U+0060","U+0060","U+0060">>,
      <<"{","\"","t","i","t","l","e","\"",":","\"","A","\"","}">>,
      <<"{","\"","c","o","n","t","e","n","t","\"",":","[","]","}">>,
      <<"{","}">>,
      <<"{","\"","s","e","c","t","i","o","n","s","\"",":","[","{","\"","t","i","t","l","e","\"",
        ":","\"","A","\"",",","\"","c","o","n","t","e","n","t","\"",":","[","]","}",",","]","}">>,
      <<"I"," ","c","a","n","n","o","t"," ","u","p","d","a","t","e"," ","t","h","i","s"," ","s",
        "e","c","t","i","o","n",".">>,
      <<>> }
PatchResponses == UNION {Truncations(text) : text \in PatchOutputs} \cup OtherPatchResponses

InitPatchJson ==
    /\ call \in {[op |-> "parse_update_response", raw_response |-> r] : r \in PatchResponses}
    /\ ret = [kind |-> "none"]
    /\ brd_data = <<>>
    /\ inflight = <<>>
    /\ s3 = Store(Stored("missing", <<>>), StoredText("missing", <<>>))
    /\ log = <<>>
    /\ req = NoRequest

ParseResponse ==
    /\ call.op = "parse_update_response"
    /\ ret.kind = "none"
    /\ ret' = [kind |-> "patch", parsed |-> parse_update_response(call.raw_response)]
    /\ UNCHANGED <<brd_data, call, s3, log, req, inflight>>
NextPatchJson == ParseResponse
SpecPatchJson == InitPatchJson /\ [][NextPatchJson]_vars

(***************************************************************************)
(* The two other reconstructions of a Document from the plain text:        *)
(* _convert_brd_text_to_structure (lambda_brd_generator.py) and            *)
(* convert_brd_to_json (lambda_brd_from_history.py).  Both walk the        *)
(* stripped lines with an open section (current_section), the lines        *)
(* collected for its next paragraph (current_content) and the sections     *)
(* closed so far.                                                          *)
(***************************************************************************)
\* r'^(?:SECTION\s+)?(\d+)\.?\s*(.+)$' with re.IGNORECASE
RE_section_line ==
    <<Bol, Opt(<<Lit(<<"S","E","C","T","I","O","N">>), Spaces>>), Group(1, <<Number>>), Opt(<<Lit(<<".">>)>>),
      OptSpaces, Group(2, <<Plus(Dot)>>), Eol>>
MaxSectionNumber == 16
ShortTitleLen == 30
Bullet == "U+2022"
S_document_overview == <<"d","o","c","u","m","e","n","t"," ","o","v","e","r","v","i","e","w">>

Current(open, title, content, lines) ==
    [open |-> open, title |-> title, content |-> content, lines |-> lines]
NoCurrent == Current(FALSE, <<>>, <<>>, <<>>)
\* "Add accumulated content as paragraph"
paragraph_added(cur) ==
    IF Len(cur.lines) > 0
    THEN Current(cur.open, cur.title,
                 Append(cur.content,
                        Block("paragraph", Strip(Join(cur.lines, <<"\n">>)), <<>>, <<>>)),
                 <<>>)
    ELSE cur
\* "Save previous section"
previous_saved(cur, sections) ==
    IF cur.open
    THEN Append(sections, [title |-> cur.title, content |-> paragraph_added(cur).content])
    ELSE sections
line_kept(cur, line) ==
    IF cur.open THEN Current(TRUE, cur.title, cur.content, Append(cur.lines, line)) ELSE cur

\* line.split(sep)
RECURSIVE SplitOn(_, _)
SplitOn(s, sep) ==
    IF \A i \in 1..Len(s) : s[i] # sep THEN <<s>>
    ELSE LET k == CHOOSE k \in 1..Len(s) : s[k] = sep /\ \A i \in 1..(k - 1) : s[i] # sep
         IN <<SubSeq(s, 1, k - 1)>> \o SplitOn(SubSeq(s, k + 1, Len(s)), sep)
IsNonEmpty(cell) == Len(cell) > 0
\* [cell.strip() for cell in line.split(sep) if cell.strip()]
cells_of(line, sep) ==
    SelectSeq([i \in 1..Len(SplitOn(line, sep)) |-> Strip(SplitOn(line, sep)[i])], IsNonEmpty)
LastType(cur) == IF Len(cur.content) = 0 THEN "none" ELSE cur.content[Len(cur.content)].type
table_row(cur, cells) ==
    IF LastType(cur) = "table"
    THEN [cur EXCEPT !.content[Len(cur.content)].rows = Append(@, cells)]
    ELSE LET flushed == paragraph_added(cur) IN
         [flushed EXCEPT !.content = Append(@, Block("table", <<>>, <<>>, <<cells>>))]
is_bullet(line) ==
    \/ StartsWith(line, <<"-"," ">>) \/ StartsWith(line, <<Bullet, " ">>) \/ StartsWith(line, <<"*",
                                                                                           " ">>)
\* re.sub(r'^[-•*]\s+', '', line) on a bullet line
bullet_item(cur, line) ==
    LET bullet_text == LStrip(Tail(line)) IN
    IF LastType(cur) = "bullet"
    THEN [cur EXCEPT !.content[Len(cur.content)].items = Append(@, bullet_text)]
    ELSE LET flushed == paragraph_added(cur) IN
         [flushed EXCEPT !.content = Append(@, Block("bullet", <<>>, <<bullet_text>>, <<>>))]
HasChar(line, c) == \E i \in 1..Len(line) : line[i] = c

Walk(cur, sections) == [cur |-> cur, sections |-> sections]
new_section(cur, sections, title) ==
    Walk(Current(TRUE, title, <<>>, <<>>), previous_saved(cur, sections))
IsHashHeader(line) == StartsWith(line, <<"#","#">>) /\ Len(line) > 3

\* one line of _convert_brd_text_to_structure
structure_line(cur, sections, line, section_match) ==
    LET section_num == IntOf(group(section_match, line, 1))
        title_text == Strip(group(section_match, line, 2))
        cells == IF HasChar(line, "|") THEN cells_of(line, "|") ELSE cells_of(line, "\t")
    IN IF Len(line) = 0 THEN Walk(IF cur.open THEN paragraph_added(cur) ELSE cur, sections)
       ELSE IF section_match.ok /\ section_num > MaxSectionNumber
       THEN Walk(line_kept(cur, line), sections)
       ELSE IF /\ section_match.ok /\ section_num = 1
               /\ ~\E k \in 1..Len(sections) :
                      StartsWith(Lower(sections[k].title), S_document_overview)
               /\ \/ Contains(S_ai_powered, Lower(title_text))
                  \/ Contains(S_brd, Lower(title_text))
                  \/ Len(title_text) < ShortTitleLen
       THEN Walk(line_kept(cur, line), sections)
       ELSE IF section_match.ok THEN new_section(cur, sections, title_text)
       ELSE IF IsHashHeader(line) THEN new_section(cur, sections, Strip(RemoveHashes(line)))
       ELSE IF ~cur.open THEN Walk(cur, sections)
       ELSE IF (HasChar(line, "|") \/ HasChar(line, "\t")) /\ Len(cells) > 1
       THEN Walk(table_row(cur, cells), sections)
       ELSE IF is_bullet(line) THEN Walk(bullet_item(cur, line), sections)
       ELSE Walk(line_kept(cur, line), sections)

\* one line of convert_brd_to_json
json_line(cur, sections, line, section_match) ==
    LET section_num == IntOf(group(section_match, line, 1)) IN
    IF Len(line) = 0 THEN Walk(IF cur.open THEN paragraph_added(cur) ELSE cur, sections)
    ELSE IF section_match.ok /\ section_num > MaxSectionNumber
    THEN Walk(line_kept(cur, line), sections)
    ELSE IF section_match.ok
    THEN new_section(cur, sections, Strip(group(section_match, line, 2)))
    ELSE IF IsHashHeader(line) THEN new_section(cur, sections, Strip(RemoveHashes(line)))
    ELSE IF ~cur.open THEN Walk(cur, sections)
    ELSE IF is_bullet(line) THEN Walk(bullet_item(cur, line), sections)
    ELSE IF HasChar(line, "|") /\ Len(cells_of(line, "|")) > 1
    THEN Walk(table_row(cur, cells_of(line, "|")), sections)
    ELSE Walk(line_kept(cur, line), sections)

\* the loop over the lines and "Don't forget the last section"
walked_line(routine, cur, sections, line, section_match) ==
    IF routine = "convert_brd_to_json" THEN json_line(cur, sections, line, section_match)
    ELSE structure_line(cur, sections, line, section_match)
RECURSIVE walk_lines(_, _, _)
walk_lines(routine, lines, w) ==
    IF Len(lines) = 0 THEN previous_saved(w.cur, w.sections)
    ELSE walk_lines(routine, Tail(lines),
                    walked_line(routine, w.cur, w.sections, Strip(Head(lines)),
                                re_match(RE_section_line, Strip(Head(lines)), IgnoreCase)))
\* returns {"sections": sections}, or None when there is no section
convert_brd_text_to_structure(brd_text) ==
    LET sections == walk_lines("_convert_brd_text_to_structure", SplitLines(brd_text),
                               Walk(NoCurrent, <<>>))
    IN [ok |-> Len(sections) > 0, sections |-> sections]
\* returns {"sections": sections}, also when there is no section
convert_brd_to_json(brd_text) ==
    [ok |-> TRUE,
     sections |-> walk_lines("convert_brd_to_json", SplitLines(brd_text),
                             Walk(NoCurrent, <<>>))]

(***************************************************************************)
(* SpecText: the three text-to-Document routines applied to texts of up to *)
(* MaxTextLines lines drawn from headers numbered 0, 1, 2, 16 and 17,      *)
(* a "##" header, and content lines.                                       *)
(***************************************************************************)
MaxTextLines == 3
L_zero == <<"0","."," ","P","r","e","f","a","c","e">>
L_one == <<"1","."," ","D","o","c","u","m","e","n","t"," ","O","v","e","r","v","i","e","w">>
L_two == <<"2","."," ","S","c","o","p","e">>
L_sixteen == <<"1","6","."," ","A","p","p","e","n","d","i","x">>
L_seventeen == <<"1","7","."," ","S","t","e","p"," ","s","e","v","e","n","t","e","e","n">>
L_hash == <<"#","#"," ","G","o","a","l","s">>
L_plain == <<"p","l","a","i","n"," ","w","o","r","d","s">>
L_bullet == <<"-"," ","i","t","e","m">>
L_table == <<"a"," ","|"," ","b">>
TextLines == {L_zero, L_one, L_two, L_sixteen, L_seventeen, L_hash, L_plain, L_bullet, L_table}
Texts ==
    UNION { { Join(ls, <<"\n">>) : ls \in [1..n -> TextLines] } : n \in 1..MaxTextLines }
TextRoutines ==
    {"_convert_brd_text_to_structure", "convert_brd_to_json",
     "create_minimal_structure_from_text"}

InitText ==
    /\ call \in {[op |-> routine, brd_text |-> t] : routine \in TextRoutines, t \in Texts}
    /\ ret = [kind |-> "none"]
    /\ brd_data = <<>>
    /\ inflight = <<>>
    /\ s3 = Store(Stored("missing", <<>>), StoredText("missing", <<>>))
    /\ log = <<>>
    /\ req = NoRequest

Reconstructed(r) == [kind |-> "reconstructed", ok |-> r.ok, sections |-> r.sections]
ConvertStructure ==
    /\ call.op = "_convert_brd_text_to_structure" /\ ret.kind = "none"
    /\ ret' = Reconstructed(convert_brd_text_to_structure(call.brd_text))
    /\ UNCHANGED <<brd_data, call, s3, log, req, inflight>>
ConvertToJson ==
    /\ call.op = "convert_brd_to_json" /\ ret.kind = "none"
    /\ ret' = Reconstructed(convert_brd_to_json(call.brd_text))
    /\ UNCHANGED <<brd_data, call, s3, log, req, inflight>>
CreateMinimal ==
    /\ call.op = "create_minimal_structure_from_text" /\ ret.kind = "none"
    /\ ret' = Reconstructed(create_minimal_structure_from_text(call.brd_text))
    /\ UNCHANGED <<brd_data, call, s3, log, req, inflight>>
NextText == ConvertStructure \/ ConvertToJson \/ CreateMinimal
SpecText == InitText /\ [][NextText]_vars

(***************************************************************************)
(* SpecBlocks: _convert_brd_text_to_structure and convert_brd_to_json      *)
(* applied to one section: the header "2. Scope" followed by up to         *)
(* MaxBodyLines body lines (paragraph lines, bullets, a table row, a       *)
(* blank line).                                                            *)
(***************************************************************************)
MaxBodyLines == 3
B_more == <<"m","o","r","e"," ","w","o","r","d","s">>
B_other == <<"-"," ","o","t","h","e","r">>
B_blank == <<>>
BodyLines == {L_plain, B_more, L_bullet, B_other, L_table, B_blank}
Bodies == UNION { [1..n -> BodyLines] : n \in 1..MaxBodyLines }
SectionText(body) == Join(<<L_two>> \o body, <<"\n">>)
BlockRoutines == {"_convert_brd_text_to_structure", "convert_brd_to_json"}

InitBlocks ==
    /\ call \in {[op |-> routine, brd_text |-> SectionText(body), body |-> body] :
                    routine \in BlockRoutines, body \in Bodies}
    /\ ret = [kind |-> "none"]
    /\ brd_data = <<>>
    /\ inflight = <<>>
    /\ s3 = Store(Stored("missing", <<>>), StoredText("missing", <<>>))
    /\ log = <<>>
    /\ req = NoRequest
NextBlocks == ConvertStructure \/ ConvertToJson
SpecBlocks == InitBlocks /\ [][NextBlocks]_vars

(***************************************************************************)
(* SpecHeaders: _convert_brd_text_to_structure applied to a text of        *)
(* headers "1. T1" .. "k. Tk" (k up to MaxHeaders), each followed by its   *)
(* own body lines.  A title is short, or of ShortTitleLen characters and   *)
(* more.                                                                   *)
(***************************************************************************)
MaxHeaders == 3
H_short == <<"S","c","o","p","e">>
H_long == <<"E","x","e","c","u","t","i","v","e"," ","S","u","m","m","a","r","y"," ","a","n","d",
            " ","B","u","s","i","n","e","s","s"," ","O","b","j","e","c","t","i","v","e","s">>
HeaderTitles == {H_short, H_long}
HeaderBodies == {<<L_plain>>, <<B_more>>, <<L_plain, B_more>>}
Digit(n) == CHOOSE d \in {"1","2","3","4","5","6","7","8","9"} : IntOf(<<d>>) = n
HeaderOf(n, title) == <<Digit(n), ".", " ">> \o title
RECURSIVE HeaderedLines(_, _, _)
HeaderedLines(titles, bodies, n) ==
    IF n > Len(titles) THEN <<>>
    ELSE <<HeaderOf(n, titles[n])>> \o bodies[n] \o HeaderedLines(titles, bodies, n + 1)
HeaderedText(titles, bodies) == Join(HeaderedLines(titles, bodies, 1), <<"\n">>)

InitHeaders ==
    /\ call \in UNION { {[op |-> "_convert_brd_text_to_structure",
                          brd_text |-> HeaderedText(titles, bodies),
                          titles |-> titles, bodies |-> bodies] :
                            titles \in [1..k -> HeaderTitles], bodies \in [1..k -> HeaderBodies]} :
                        k \in 1..MaxHeaders }
    /\ ret = [kind |-> "none"]
    /\ brd_data = <<>>
    /\ inflight = <<>>
    /\ s3 = Store(Stored("missing", <<>>), StoredText("missing", <<>>))
    /\ log = <<>>
    /\ req = NoRequest
NextHeaders == ConvertStructure
SpecHeaders == InitHeaders /\ [][NextHeaders]_vars

(***************************************************************************)
(* SpecRound: a Document is rendered to the plain text that is saved       *)
(* (render_brd_to_text), rebuilt from that text by the fallback            *)
(* create_minimal_structure_from_text, and a section of it is shown.       *)
(***************************************************************************)
InitRound ==
    /\ call \in {[op |-> "round_trip", n |-> n, before |-> d] :
                    n \in 1..MaxSections, d \in InitialDocuments}
    /\ ret = [kind |-> "none"]
    /\ brd_data = call.before
    /\ inflight = <<>>
    /\ s3 = Store(Stored("missing", <<>>), StoredText("missing", <<>>))
    /\ log = <<>>
    /\ req = NoRequest
\* the Document rebuilt from the text, and the section shown on both
shown_after_rebuild(sections, minimal, section_number) ==
    [kind |-> "round_trip", rebuilt |-> minimal,
     shown |-> handle_show_section(sections, section_number),
     reshown |-> IF minimal.ok THEN handle_show_section(minimal.sections, section_number)
                 ELSE [kind |-> "no_document"]]
RebuildAndShow ==
    /\ call.op = "round_trip" /\ ret.kind = "none"
    /\ ret' = shown_after_rebuild(brd_data,
                  create_minimal_structure_from_text(render_brd_to_text(brd_data)), call.n)
    /\ brd_data' = IF ret'.rebuilt.ok THEN ret'.rebuilt.sections ELSE brd_data
    /\ UNCHANGED <<call, s3, log, req, inflight>>
NextRound == RebuildAndShow
SpecRound == InitRound /\ [][NextRound]_vars

(***************************************************************************)
(* SpecContext: the derivation of the section in view (send_message, from  *)
(* "FIRST: Check the current message" to the end of the history scans)     *)
(* applied to a message, a conversation log and a loaded Document.         *)
(* last_updated_section is None throughout this part of the handler.       *)
(***************************************************************************)
M_goals_content == <<"G","o","a","l","s","\n","k","e","e","p"," ","t","h","i","s"," ","s","h",
                     "o","r","t">>
M_section_2 == <<"S","E","C","T","I","O","N"," ","2",":">>
DocC ==
    << [title |-> <<"1","."," ","G","o","a","l","s">>, content |-> OrigContent(1)],
       [title |-> <<"2","."," ","S","c","o","p","e">>, content |-> OrigContent(2)] >>
ContextMessages ==
    {M_list, M_show_2, M_update_2, M_change_here, M_what_is, M_hello, M_goals_content,
     M_section_2}
ContextDocuments == {DocA, DocB, DocC}
ContextLogs ==
    { <<>>,
      add_message_to_memory(add_message_to_memory(<<>>, "user", M_show_2), "assistant",
                            <<"#","#"," ","2","."," ","G","o","a","l","s","\n","\n","o","r","i",
                              "g"," ","2">>),
      add_message_to_memory(<<>>, "user", <<"s","h","o","w"," ","g","o","a","l","s">>) }

InitContext ==
    /\ brd_data \in ContextDocuments
    /\ log \in ContextLogs
    /\ call \in {[op |-> "derive_context", message |-> message] : message \in ContextMessages}
    /\ ret = [kind |-> "none"]
    /\ inflight = <<>>
    /\ s3 = Store(Stored("missing", <<>>), StoredText("missing", <<>>))
    /\ req = NoRequest

DeriveContext ==
    /\ call.op = "derive_context"
    /\ ret.kind = "none"
    /\ ret' = [kind |-> "context", sections |-> brd_data, events |-> log,
               context |-> derive_context(call.message, Matches(call.message), brd_data,
                                          get_session_history(log))]
    /\ UNCHANGED <<brd_data, call, s3, log, req, inflight>>
NextContext == DeriveContext
SpecContext == InitContext /\ [][NextContext]_vars

(***************************************************************************)
(* SpecParse: the update branch of the message parsing (send_message,      *)
(* "Handle various natural language update patterns", Pattern 1 to         *)
(* Pattern 8 and the conversion of a title to a number) applied to a       *)
(* cleaned message, a loaded Document and a section in view.               *)
(***************************************************************************)
M_update_scope == <<"u","p","d","a","t","e"," ","s","e","c","t","i","o","n"," ","s","c","o","p",
                    "e",":"," ","a","d","d"," ","d","e","t","a","i","l">>
M_edit_in_2 == <<"e","d","i","t"," ","i","n"," ","s","e","c","t","i","o","n"," ","2"," ","a",
                 "d","d"," ","d","e","t","a","i","l">>
M_in_2_change == <<"i","n"," ","s","e","c","t","i","o","n"," ","2"," ","c","h","a","n","g","e",
                   " ","a"," ","t","o"," ","b">>
M_change_in_2 == <<"c","h","a","n","g","e"," ","a"," ","t","o"," ","b"," ","i","n"," ","s","e",
                   "c","t","i","o","n"," ","2">>
M_change_in_scope == <<"c","h","a","n","g","e"," ","a"," ","t","o"," ","b"," ","i","n"," ","s",
                       "e","c","t","i","o","n"," ","s","c","o","p","e">>
M_change_2_now == <<"c","h","a","n","g","e"," ","a"," ","t","o"," ","b"," ","s","e","c","t","i",
                    "o","n"," ","2"," ","n","o","w">>
M_change_see_scope == <<"c","h","a","n","g","e"," ","a"," ","t","o"," ","b",","," ","s","e","e",
                        " ","s","e","c","t","i","o","n"," ","s","c","o","p","e"," ","n","o","w">>
M_replace_scope == <<"r","e","p","l","a","c","e"," ","s","e","c","t","i","o","n"," ","s","c",
                     "o","p","e"," ","w","i","t","h"," ","g","o","a","l","s">>
M_replace_how == <<"r","e","p","l","a","c","e"," ","s","e","c","t","i","o","n"," ","h","o","w",
                   " ","n","o","w">>
ParseMessages ==
    {M_update_1, M_update_2, M_update_scope, M_edit_in_2, M_in_2_change, M_change_in_2,
     M_change_in_scope, M_change_2_now, M_change_see_scope, M_replace_scope, M_replace_how,
     M_change_here, M_what_changes}
\* the matches of the handler's patterns on the messages above
ParseTable == [text \in ParseMessages |-> text_matches(text)]
ParseDocuments == {DocA, DocB, DocC}
\* last_shown_section and last_shown_section_title when the branch is entered
ParseViews ==
    { [last_shown_section |-> None, last_shown_section_title |-> <<>>],
      [last_shown_section |-> 1, last_shown_section_title |-> <<>>],
      [last_shown_section |-> 2, last_shown_section_title |-> <<"G","o","a","l","s">>] }

InitParse ==
    /\ brd_data \in ParseDocuments
    /\ call \in {[op |-> "parse_update", message |-> message, view |-> view] :
                    message \in ParseMessages, view \in ParseViews}
    /\ ret = [kind |-> "none"]
    /\ log = <<>>
    /\ inflight = <<>>
    /\ s3 = Store(Stored("missing", <<>>), StoredText("missing", <<>>))
    /\ req = NoRequest

ParseUpdate ==
    /\ call.op = "parse_update"
    /\ ret.kind = "none"
    /\ ret' = [kind |-> "parsed", matches |-> matches_in(ParseTable, call.message),
               parsed |-> update_patterns(call.message,
                                          matches_in(ParseTable, call.message), brd_data,
                                          call.view.last_shown_section,
                                          call.view.last_shown_section_title)]
    /\ UNCHANGED <<brd_data, call, s3, log, req, inflight>>
NextParse == ParseUpdate
SpecParse == InitParse /\ [][NextParse]_vars

(***************************************************************************)
(* SpecPrompt: handle_update_section called up to MaxUpdateCalls times on  *)
(* the same Document, section number and instruction, each time with a     *)
(* conversation history of its own; the generation calls it makes are      *)
(* recorded.                                                               *)
(***************************************************************************)
MaxUpdateCalls == 2
I_add_detail == <<"a","d","d"," ","d","e","t","a","i","l">>
I_change == <<"c","h","a","n","g","e"," ","a"," ","t","o"," ","b">>
I_markdown == <<"#","#"," ","G","o","a","l","s","\n","n","e","w"," ","t","e","x","t">>
PromptInstructions == {I_add_detail, I_change, I_markdown}
PromptDocuments == {DocA, DocB, DocC}
PromptHistories == {get_session_history(events) : events \in ContextLogs}

InitPrompt ==
    /\ brd_data \in PromptDocuments
    /\ call \in {[op |-> "update_calls", n |-> n, user_instruction |-> i] :
                    n \in 0..MaxSections, i \in PromptInstructions}
    /\ ret = [kind |-> "generation_calls", calls |-> <<>>]
    /\ log = <<>>
    /\ inflight = <<>>
    /\ s3 = Store(Stored("missing", <<>>), StoredText("missing", <<>>))
    /\ req = NoRequest

UpdateWithHistory ==
    \E conversation_history \in PromptHistories :
        /\ call.op = "update_calls"
        /\ Len(ret.calls) < MaxUpdateCalls
        /\ ret' = [ret EXCEPT !.calls =
                       Append(@, [conversation_history |-> conversation_history,
                                  generation |->
                                      update_generation_call(brd_data, call.n,
                                                             call.user_instruction,
                                                             conversation_history)])]
        /\ UNCHANGED <<brd_data, call, s3, log, req, inflight>>
NextPrompt == UpdateWithHistory
SpecPrompt == InitPrompt /\ [][NextPrompt]_vars

(***************************************************************************)
(* SpecRace: two send_message requests editing the same document at the    *)
(* same time.  Each invocation of the handler runs its own steps in order  *)
(* (append the user event and load, patch its copy, write the structure,   *)
(* write the text, append the answer); the steps of the two invocations    *)
(* interleave freely, since the handler takes no lock and put_object       *)
(* carries no version condition.  Both requests are "update section N:"    *)
(* commands on a stored document, and the S3 writes succeed.               *)
(***************************************************************************)
Racers == {1, 2}
RaceMessages == {M_update_1, M_update_2}
\* what each request's generation call returns for the section it patches
RaceContent(p) == << Block("paragraph", <<"e","d","i","t"," ">> \o IntText(p), <<>>, <<>>) >>
RaceGenerations(p) ==
    { Gen("object", TRUE, TRUE, t, RaceContent(p)) : t \in {T_Scope, T_goals} }
        \cup { Gen("raise", FALSE, FALSE, <<>>, <<>>) }

\* one invocation: where it is, what it parsed, the Document as it loaded it,
\* its own copy of the Document, how many structure writes had landed when it
\* loaded, and the order of its own structure write
Racer(pc, section_num, instruction, seen, loaded, doc, response, saved) ==
    [pc |-> pc, section_num |-> section_num, instruction |-> instruction, seen |-> seen,
     loaded |-> loaded, brd_data |-> doc, response |-> response, saved |-> saved]
StructureWrites == Cardinality({q \in Racers : inflight[q].saved > 0})

InitRace ==
    /\ s3 \in {Healthy(DocA), Healthy(DocB)}
    /\ log = <<>>
    /\ inflight = [p \in Racers |-> Racer("idle", None, <<>>, 0, <<>>, <<>>, <<>>, 0)]
    /\ req = NoRequest
    /\ brd_data = <<>>
    /\ call = Call("none", 0, <<>>, FALSE, NotInvoked, <<>>)
    /\ ret = [kind |-> "none"]

\* the user event, then get_brd_from_s3, then Pattern 1 on the message
Loads(p) ==
    /\ inflight[p].pc = "idle"
    /\ \E message \in RaceMessages :
          LET m == find(Searched(RE_pattern1, IgnoreCaseDotAll, FALSE), message) IN
          /\ log' = add_message_to_memory(log, "user", message)
          /\ inflight' = [inflight EXCEPT ![p] =
                 Racer("loaded", IntOf(group(m, message, 1)), Strip(group(m, message, 2)),
                       StructureWrites, s3.structure.sections, s3.structure.sections,
                       <<>>, 0)]
    /\ UNCHANGED <<brd_data, call, ret, s3, req>>

\* handle_update_section on the request's own copy
Patches(p) ==
    /\ inflight[p].pc = "loaded"
    /\ \E gen \in RaceGenerations(p) :
          LET result == handle_update_section(inflight[p].brd_data, inflight[p].section_num,
                                              is_full_content(inflight[p].instruction), gen)
          IN inflight' = [inflight EXCEPT
                 ![p].pc = IF result.success THEN "patched" ELSE "answering",
                 ![p].brd_data = IF result.success THEN result.updated_brd ELSE @,
                 ![p].response = message_text(result.message)]
    /\ UNCHANGED <<brd_data, call, ret, s3, log, req>>

\* save_brd_to_s3(brd_id, updated_brd): an unconditional put of the whole Document
WritesStructure(p) ==
    /\ inflight[p].pc = "patched"
    /\ s3' = save_brd_to_s3(s3, inflight[p].brd_data, DefaultEnv).store
    /\ inflight' = [inflight EXCEPT ![p].pc = "saved", ![p].saved = StructureWrites + 1]
    /\ UNCHANGED <<brd_data, call, ret, log, req>>

\* save_brd_text_to_s3(brd_id, updated_brd)
WritesText(p) ==
    /\ inflight[p].pc = "saved"
    /\ s3' = save_brd_text_to_s3(s3, inflight[p].brd_data, DefaultEnv).store
    /\ inflight' = [inflight EXCEPT ![p].pc = "answering"]
    /\ UNCHANGED <<brd_data, call, ret, log, req>>

\* the assistant event that closes the request
Responds(p) ==
    /\ inflight[p].pc = "answering"
    /\ log' = add_message_to_memory(log, "assistant", inflight[p].response)
    /\ inflight' = [inflight EXCEPT ![p].pc = "done"]
    /\ UNCHANGED <<brd_data, call, ret, s3, req>>

RaceLoad == \E p \in Racers : Loads(p)
RacePatch == \E p \in Racers : Patches(p)
RaceSaveStructure == \E p \in Racers : WritesStructure(p)
RaceSaveText == \E p \in Racers : WritesText(p)
RaceRespond == \E p \in Racers : Responds(p)
NextRace == RaceLoad \/ RacePatch \/ RaceSaveStructure \/ RaceSaveText \/ RaceRespond
SpecRace == InitRace /\ [][NextRace]_vars

(***************************************************************************)
(* The reference resolver the claims are stated against: user section n    *)
(* is array index n when a pseudo-title is detected, n - 1 otherwise.      *)
(***************************************************************************)
PseudoTitleOffset(doc) == IF has_doc_title(doc) THEN 1 ELSE 0
ContentSectionCount(doc) == Len(doc) - PseudoTitleOffset(doc)
ValidNumber(doc, n) == 1 <= n /\ n <= ContentSectionCount(doc)
\* position in the sequence (one-based) of user section n
PositionOf(doc, n) == n + PseudoTitleOffset(doc)

\* neither title equals or contains the other, prefixes stripped, lower-cased
FuzzyMatch(a, b) ==
    LET x == Lower(CleanTitle(a))
        y == Lower(CleanTitle(b))
    IN x = y \/ Contains(x, y) \/ Contains(y, x)

UpdateReturnedObject ==
    /\ call.op = "update"
    /\ call.gen.kind = "object" /\ call.gen.has_title /\ call.gen.has_content

\* C1: whenever the title the generation model returns does not fuzzy-match the
\* expected title of the resolved section, handle_update_section fails, carries
\* no updated document and leaves the document's sections as they were
C1_MismatchRejected ==
    (/\ UpdateReturnedObject
     /\ ValidNumber(call.before, call.n)
     /\ ~FuzzyMatch(call.gen.title, call.before[PositionOf(call.before, call.n)].title))
    => (/\ ret.success = FALSE
        /\ ret.has_updated_brd = FALSE
        /\ brd_data = call.before)

\* C2: after a successful handle_update_section for section n the section at the
\* resolved index carries the stored title with its numeral prefix stripped and
\* the content the model returned; the other sections, their order and their
\* number are unchanged
C2_SuccessFrame ==
    (call.op = "update" /\ ret.success)
    => (/\ ValidNumber(call.before, call.n)
        /\ Len(brd_data) = Len(call.before)
        /\ LET p == PositionOf(call.before, call.n) IN
           /\ brd_data[p].title = CleanTitle(call.before[p].title)
           /\ brd_data[p].content = call.gen.content
           /\ \A j \in 1..Len(brd_data) : j # p => brd_data[j] = call.before[j]
        /\ ret.has_updated_brd /\ ret.updated_brd = brd_data)

\* a successful update of a document of several sections where the model's
\* title differs from the canonical one
C2_Witness ==
    /\ call.op = "update" /\ ret.success
    /\ Len(call.before) >= 2
    /\ call.gen.title # CleanTitle(call.before[PositionOf(call.before, call.n)].title)
    /\ call.before[PositionOf(call.before, call.n)].title
         # CleanTitle(call.before[PositionOf(call.before, call.n)].title)

\* C3: handle_show_section(document, n) renders exactly the section the
\* reference resolver names for 1 <= n <= number of content sections, and
\* returns the invalid-section message with no content for any other n
C3_ShowMatchesResolver ==
    (call.op = "show")
    => IF ValidNumber(brd_data, call.n)
       THEN /\ ret.kind = "section"
            /\ ret.number = call.n
            /\ ret.title = CleanTitle(brd_data[PositionOf(brd_data, call.n)].title)
            /\ ret.body = RenderBlocks(brd_data[PositionOf(brd_data, call.n)].content)
       ELSE /\ ret.kind = "invalid"
            /\ ret.title = <<>> /\ ret.body = <<>>
            /\ ret.max = ContentSectionCount(brd_data)

\* a section shown from a document with a pseudo-title and several content sections
C3_Witness ==
    /\ call.op = "show" /\ ret.kind = "section"
    /\ has_doc_title(brd_data) /\ Len(brd_data) >= 3
    /\ call.n = 2
    /\ brd_data[2].content # brd_data[3].content

\* the five matching rules as the claim words them, on a stored title and the
\* normalised identifier
C7_Rules(stored_title, ident) ==
    LET t == Lower(stored_title)
        c == Strip(SubNumPrefix(t))
    IN \/ t = ident
       \/ Contains(ident, t) \/ Contains(t, ident)
       \/ c = ident \/ Contains(ident, c)
       \/ (WordsOf(ident) # {} /\ WordsOf(ident) \subseteq WordsOf(c))
       \/ \E w \in WordsOf(c) : Len(w) > 3 /\ Contains(w, ident)
C7_Matching(doc, ident) ==
    { p \in (1 + PseudoTitleOffset(doc))..Len(doc) : C7_Rules(doc[p].title, ident) }

\* C7: for a non-numeric identifier _find_section_by_title_or_number returns the
\* user-visible number of the first section in document order, the pseudo-title
\* skipped, that satisfies one of the five rules, None when there is none, and
\* handle_show_section of the returned number displays that section
C7_FirstMatchWins ==
    (call.op = "find" /\ ~IsIntText(call.ident))
    => LET m == C7_Matching(brd_data, Strip(Lower(call.ident))) IN
       IF m = {} THEN ret = None
       ELSE LET first == CHOOSE p \in m : \A q \in m : p <= q
                shown == handle_show_section(brd_data, ret)
            IN /\ ret = first - PseudoTitleOffset(brd_data)
               /\ ~(has_doc_title(brd_data) /\ first = 1)
               /\ shown.kind = "section"
               /\ shown.title = CleanTitle(brd_data[first].title)
               /\ shown.body = RenderBlocks(brd_data[first].content)

\* a title found behind a pseudo-title, not as the first content section, by
\* the keyword rules alone
C7_Witness ==
    /\ call.op = "find" /\ ~IsIntText(call.ident)
    /\ has_doc_title(brd_data)
    /\ ret >= 2
    /\ ~Contains(Strip(Lower(call.ident)), Lower(brd_data[ret + 1].title))
    /\ ~Contains(Lower(brd_data[ret + 1].title), Strip(Lower(call.ident)))

(***************************************************************************)
(* send_message requests: what the claims read from the last request.      *)
(***************************************************************************)
Answered == req.kind = "send_message" /\ req.out.status = 200
\* the message as the handler reads it
Asked == clean_message(req.received)
\* the document was loaded (from the store or by reconstruction)
DocumentLoaded == Len(req.out.sections) > 0

\* C4: a request never reports the document as updated while the stored
\* structure was saved and the stored plain-text rendering was not: after it
\* the stored text is the rendering of the stored structure.
C4_CommittedTogether ==
    (req.kind = "send_message" /\ req.out.brd_updated)
        => /\ req.out.structure_saved = req.out.text_saved
           /\ s3.structure.state = "ok"
           /\ s3.text = StoredText("ok", render_brd_to_text(s3.structure.sections))

\* the stages of the fallback chain, in order
FallbackChain == <<"structure", "generation", "heuristic">>
RECURSIVE Collapsed(_)
\* a sequence without the repetitions of a stage tried again
Collapsed(stages) ==
    IF Len(stages) <= 1 THEN stages
    ELSE IF stages[1] = stages[2] THEN Collapsed(Tail(stages))
    ELSE <<stages[1]>> \o Collapsed(Tail(stages))
\* the stored structure is missing or corrupt and the raw text is stored
StructureUnusable ==
    /\ req.kind = "send_message"
    /\ Len(Strip(req.received)) > 0
    /\ req.before.structure.state \in {"missing", "corrupt"}
    /\ req.before.text.state = "ok"

\* C5: when the stored structure is missing or corrupt, the request tries the
\* stages of the fallback chain in order and ends either with a loaded
\* document or with the failure that tells the user to regenerate it.
C5_FallbackChain ==
    StructureUnusable
        => /\ Collapsed(req.out.stages)
                = SubSeq(FallbackChain, 1, Len(Collapsed(req.out.stages)))
           /\ DocumentLoaded \/ req.out.error = S_reconstruction_failed

Interrogatives == {<<"w","h","a","t">>, <<"w","h","i","c","h">>, <<"w","h","e","r","e">>, <<"w","h","e","n">>, <<"w","h","y">>, <<"h","o","w">>}
PureQuestionPhrases == {<<"w","h","i","c","h"," ","s","e","c","t","i","o","n">>, <<"w","h","a","t"," ","c","h","a","n","g","e","s">>, <<"w","h","a","t"," ","h","a","v",
                                                               "e"," ","i">>}
\* a pure question form: it starts with an interrogative word or holds one
\* of the question phrases
PureQuestion(message) ==
    \/ AnyIn(PureQuestionPhrases, Lower(message))
    \/ (Len(SplitWords(message)) > 0 /\ Lower(SplitWords(message)[1]) \in Interrogatives)

\* C6: handling a message that is a pure question form, asked of a stored
\* document, never calls handle_update_section and never saves the document.
C6_QuestionsNeverEdit ==
    (/\ req.kind = "send_message" /\ req.command = NoCommand
     /\ req.before.structure.state = "ok"
     /\ PureQuestion(Asked))
        => /\ ~req.out.update_called
           /\ ~req.out.brd_updated
           /\ s3 = req.before

\* an explicit "show N" command of the user
ExplicitShow(e) ==
    /\ e.role = "USER"
    /\ StartsWith(e.text, <<"s","h","o","w"," ">>)
    /\ IsIntText(SubSeq(e.text, 6, Len(e.text)))
ShownNumber(e) == IntOf(SubSeq(e.text, 6, Len(e.text)))
\* the positions in the log of the user's explicit "show N" commands
ExplicitShows(events) == {i \in 1..Len(events) : ExplicitShow(events[i])}
Latest(positions) == CHOOSE i \in positions : \A j \in positions : j <= i
\* the message names no section: no number, and the handler found none
NamesNoSection ==
    /\ \A i \in 1..Len(Asked) : Asked[i] \notin Digits
    /\ req.out.context.section_in_message = None

\* C8: when the current message holds no section reference and the log holds
\* user "show N" commands, the derived section is the N of the most recent
\* such command.
C8_MostRecentShowWins ==
    (Answered /\ NamesNoSection /\ ExplicitShows(req.log_before) # {})
        => req.out.context.last_shown_section
             = ShownNumber(req.log_before[Latest(ExplicitShows(req.log_before))])

\* the section numbers and the cleaned titles an update confirmation can name
SectionNumbers == 1..MaxSections
CleanTitles ==
    {CleanTitle(DocA[k].title) : k \in 1..Len(DocA)}
        \cup {CleanTitle(DocB[k].title) : k \in 1..Len(DocB)}
\* an update confirmation of the assistant that names section n, titled t
IsConfirmation(e, n, t) == e.role = "ASSISTANT" /\ e.text = ConfirmationText(n, t)
Confirmations(events) ==
    {i \in 1..Len(events) :
        \E n \in SectionNumbers, t \in CleanTitles : IsConfirmation(events[i], n, t)}
\* the display of the section at position k of the document, as section n
DisplayOf(sections, k, n) ==
    show_text([kind |-> "section", max |-> 0, number |-> n,
               title |-> CleanTitle(sections[k].title),
               body |-> RenderBlocks(sections[k].content)])
ShowUpdatedAnswered == Answered /\ req.command = NoCommand /\ Asked = M_show_updated

\* C9: for "show me updated section", the section displayed is the one named
\* by the most recent update confirmation of the assistant in the log, and
\* when the log holds no confirmation no section is displayed.
C9_ShowsLastConfirmed ==
    ShowUpdatedAnswered
        => IF Confirmations(req.log_before) = {}
           THEN req.out.response = S_no_update_information
           ELSE \E n \in SectionNumbers, t \in CleanTitles :
                   /\ IsConfirmation(req.log_before[Latest(Confirmations(req.log_before))],
                                     n, t)
                   /\ \E k \in 1..Len(req.out.sections) :
                         /\ CleanTitle(req.out.sections[k].title) = t
                         /\ req.out.response = DisplayOf(req.out.sections, k, n)

\* the section numbers the confirmations of a log name
ConfirmedNumbers(events) ==
    {n \in SectionNumbers :
        \E i \in 1..Len(events), t \in CleanTitles : IsConfirmation(events[i], n, t)}
\* the position of the oldest confirmation that names section n
FirstConfirmed(events, n) ==
    CHOOSE i \in 1..Len(events) :
        /\ \E t \in CleanTitles : IsConfirmation(events[i], n, t)
        /\ \A j \in 1..(i - 1) : ~\E t \in CleanTitles : IsConfirmation(events[j], n, t)
WhichUpdatedAnswered ==
    /\ Answered /\ req.command = NoCommand
    /\ req.out.general.kind = "ask" /\ req.out.general.is_update_question
\* the numbers of the list of updated sections, in its order
ListedNumbers ==
    [i \in 1..Len(req.out.general.all_updated_sections) |->
        req.out.general.all_updated_sections[i].number]
ListsEachConfirmedOnce ==
    /\ {ListedNumbers[i] : i \in 1..Len(ListedNumbers)} = ConfirmedNumbers(req.log_before)
    /\ \A i, j \in 1..Len(ListedNumbers) : i # j => ListedNumbers[i] # ListedNumbers[j]

HereEdit == req.kind = "send_message" /\ req.command = NoCommand /\ Asked = M_change_here
\* the positions at which the stored structure differs from the one before
ChangedPositions ==
    {k \in 1..Len(s3.structure.sections) :
        \/ k > Len(req.before.structure.sections)
        \/ s3.structure.sections[k] # req.before.structure.sections[k]}

C11_NoViewWitness == HereEdit /\ req.out.context.last_shown_section = None

\* the messages that ask for the list of sections
ListRequests == {M_list, M_list_all, M_show_all}

\* C12: 'list', 'list all sections' and 'show all sections' are each answered
\* with the list of handle_list_sections, and none is routed to the
\* generation model.
C12_ListRequestsListed ==
    (Answered /\ req.command = NoCommand /\ Asked \in ListRequests)
        => /\ req.out.response = list_text(handle_list_sections(req.out.sections))
           /\ req.out.general.kind # "ask"

\* the failure an update must report, by its cause ("none": no such cause)
ExpectedFailure ==
    IF ~ValidNumber(call.before, call.n) THEN "invalid"
    ELSE IF call.gen.kind = "raise" THEN "update_failed"
    ELSE IF call.gen.kind \in {"no_json", "bad_json"} THEN "parse_failed"
    ELSE IF call.gen.kind = "object" /\ (~call.gen.has_title \/ ~call.gen.has_content)
    THEN "invalid_structure"
    ELSE "none"

UserMessageLogged ==
    /\ req.kind = "send_message"
    /\ Len(log) > Len(req.log_before)
    /\ log[Len(req.log_before) + 1].role = "USER"

\* C14: a request that appends the user's message to the log also appends an
\* assistant response before it returns, on every path.
C14_AssistantEventAppended ==
    UserMessageLogged
        => /\ Len(log) = Len(req.log_before) + 2
           /\ log[Len(log)].role = "ASSISTANT"

(***************************************************************************)
(* C15.  When two send_message requests edit the same document at the same *)
(* time and both have written it, the stored structure is exactly the      *)
(* Document of the request whose write landed last: outside the section    *)
(* that request patched it is the Document as that request loaded it, and  *)
(* when both had loaded before either wrote, the section the other request *)
(* patched is back to what it was before, its edit gone.                   *)
(***************************************************************************)
BothWritten == \A p \in Racers : inflight[p].pc = "done" /\ inflight[p].saved > 0
LaterWriter == CHOOSE p \in Racers : inflight[p].saved = 2
EarlierWriter == CHOOSE p \in Racers : inflight[p].saved = 1
PatchedPosition(p) == PositionOf(inflight[p].loaded, inflight[p].section_num)
Overlapped == inflight[LaterWriter].seen = 0 /\ inflight[EarlierWriter].seen = 0
C15_LaterSaveOverwrites ==
    BothWritten =>
        /\ s3.structure.sections = inflight[LaterWriter].brd_data
        /\ \A k \in 1..Len(s3.structure.sections) :
              k # PatchedPosition(LaterWriter)
                  => s3.structure.sections[k] = inflight[LaterWriter].loaded[k]
        /\ (Overlapped /\ PatchedPosition(EarlierWriter) # PatchedPosition(LaterWriter))
              => /\ s3.structure.sections[PatchedPosition(EarlierWriter)]
                      = inflight[EarlierWriter].loaded[PatchedPosition(EarlierWriter)]
                 /\ s3.structure.sections[PatchedPosition(EarlierWriter)]
                      # inflight[EarlierWriter].brd_data[PatchedPosition(EarlierWriter)]
C15_Witness ==
    /\ BothWritten
    /\ Overlapped
    /\ PatchedPosition(EarlierWriter) # PatchedPosition(LaterWriter)
    /\ s3.structure.sections[PatchedPosition(EarlierWriter)].content
           # RaceContent(EarlierWriter)

(***************************************************************************)
(* C16.  Within one send_message request nothing is retried: the document  *)
(* is reconstructed by the generation client at most once, a section is    *)
(* patched by it at most once, and a reconstruction that yields nothing is *)
(* not followed by a second reconstruction in the same request.            *)
(***************************************************************************)
TimesAsked(which) ==
    Cardinality({i \in 1..Len(req.out.asked) : req.out.asked[i] \in which})
C16_NoAutomaticRetry ==
    req.kind = "send_message"
        => /\ req.out.rebuild_calls <= 1
           /\ TimesAsked({"rebuild1", "rebuild2"}) <= 1
           /\ TimesAsked({"gen"}) <= 1

(***************************************************************************)
(* C17.  convert_brd_text_to_json takes the value of the first of its      *)
(* parse attempts that succeeds, and a generation output cut short with    *)
(* openers left unmatched, once the "sections" array has begun, comes out  *)
(* as a parsed object with the key "sections".                             *)
(***************************************************************************)
ConvertReturned == call.op = "convert_brd_text_to_json" /\ ret.kind # "none"
CutWithOpens(raw_response) ==
    /\ \E text \in FullOutputs : raw_response \in Truncations(text) \ {text}
    /\ \/ Count(raw_response, "{") > Count(raw_response, "}")
       \/ Count(raw_response, "[") > Count(raw_response, "]")
    /\ Contains(S_sections, raw_response)
    /\ Count(raw_response, "[") > 0
C17_TruncatedOutputRepaired ==
    ConvertReturned =>
        /\ ret.stage = "direct" <=> (Len(ret.json_str) > 0 /\ json_loads(ret.json_str).ok)
        /\ CutWithOpens(call.raw_response)
              => /\ ret.kind = "document"
                 /\ ret.structured.ok /\ ret.structured.kind = "object"
                 /\ S_sections \in ret.structured.keys

(***************************************************************************)
(* C18.  In each of the three text-to-Document routines a line "N. Title"  *)
(* whose number N is outside 1..16 starts no section, and when a section   *)
(* is open it is kept as a line of that section's content.                 *)
(***************************************************************************)
Reconstruction == ret.kind = "reconstructed"
OpensSection(line) ==
    \/ IsHashHeader(line)
    \/ /\ re_match(HeaderLine, line, NoFlags).ok
       /\ IntOf(group(re_match(HeaderLine, line, NoFlags), line, 1)) \in 2..MaxSectionNumber
KeptAsContent(sections, line) ==
    \E k \in 1..Len(sections) : \E b \in 1..Len(sections[k].content) :
        /\ sections[k].content[b].type = "paragraph"
        /\ Contains(line, sections[k].content[b].text)
C18_OnlyOneToSixteenStartSections ==
    Reconstruction =>
        LET lines == SplitLines(call.brd_text) IN
        \A i \in 1..Len(lines) :
            LET m == re_match(HeaderLine, lines[i], NoFlags) IN
            (m.ok /\ IntOf(group(m, lines[i], 1)) \notin 1..MaxSectionNumber)
                => /\ \A k \in 1..Len(ret.sections) :
                         ret.sections[k].title # Strip(group(m, lines[i], 2))
                   /\ (\E j \in 1..(i - 1) : OpensSection(lines[j]))
                         => KeptAsContent(ret.sections, lines[i])

(***************************************************************************)
(* C19.  The section in view derived for a message and a log is the same   *)
(* whatever Document is loaded, and the derivation leaves the log and the  *)
(* Document as they were.                                                  *)
(***************************************************************************)
ContextDerived == ret.kind = "context"
ContextWith(sections) ==
    derive_context(call.message, Matches(call.message), sections, get_session_history(log))
C19_ContextIgnoresDocument ==
    ContextDerived =>
        /\ \A other \in ContextDocuments :
              /\ ContextWith(other).last_shown_section = ret.context.last_shown_section
              /\ ContextWith(other).section_in_message = ret.context.section_in_message
        /\ log = ret.events
        /\ brd_data = ret.sections

(***************************************************************************)
(* C20.  The update patterns are a cascade in which the first pattern that *)
(* matches fixes what is parsed: once one of the patterns 1, 1b, 2, ...    *)
(* 7b has matched the message, the instruction, the section title and the  *)
(* section number it parsed are the ones the parsing ends with; no later   *)
(* pattern replaces them.                                                  *)
(***************************************************************************)
\* one pattern of the cascade on a message: whether it matches and what it
\* parses on its own
Step(ok, section_num, section_title, instruction) ==
    [ok |-> ok, section_num |-> section_num, section_title |-> section_title,
     instruction |-> instruction]
PatternSteps(message, mt) ==
    LET g(m, k) == Strip(group(m, message, k))
        numbered(m) == IF m.ok THEN Step(TRUE, IntOf(group(m, message, 1)), <<>>, g(m, 2))
                       ELSE Step(FALSE, None, <<>>, <<>>)
        titled(m) == IF m.ok THEN Step(TRUE, None, g(m, 1), g(m, 2))
                     ELSE Step(FALSE, None, <<>>, <<>>)
        changed(ok, section_num, section_title, m) ==
            IF ok THEN Step(TRUE, section_num, section_title,
                            ChangeInstruction(g(m, 1), g(m, 2)))
            ELSE Step(FALSE, None, <<>>, <<>>)
    IN << numbered(mt.pattern1), titled(mt.pattern1b), numbered(mt.pattern2),
          titled(mt.pattern2b), numbered(mt.pattern3), titled(mt.pattern3b),
          numbered(mt.pattern4), titled(mt.pattern4b),
          changed(mt.pattern5.ok,
                  IF mt.pattern5.ok THEN IntOf(group(mt.pattern5, message, 3)) ELSE None,
                  <<>>, mt.pattern5),
          changed(mt.pattern5b.ok, None,
                  IF mt.pattern5b.ok THEN g(mt.pattern5b, 3) ELSE <<>>, mt.pattern5b),
          changed(mt.change_to.ok /\ mt.section_number.ok,
                  IF mt.section_number.ok
                  THEN IntOf(group(mt.section_number, message, 1)) ELSE None,
                  <<>>, mt.change_to),
          changed(mt.change_to.ok /\ mt.section_title.ok, None,
                  IF mt.section_title.ok THEN g(mt.section_title, 1) ELSE <<>>,
                  mt.change_to),
          numbered(mt.pattern7), titled(mt.pattern7b) >>
SomeStepMatches(steps) == \E i \in DOMAIN steps : steps[i].ok
FirstMatching(steps) ==
    steps[CHOOSE i \in DOMAIN steps : steps[i].ok /\ \A j \in 1..(i - 1) : ~steps[j].ok]
FixedBy(first, parsed) ==
    /\ parsed.instruction = first.instruction
    /\ parsed.section_title = first.section_title
    /\ (first.section_num # None => parsed.section_num = first.section_num)
FirstMatchFixes(steps, parsed) ==
    SomeStepMatches(steps) => FixedBy(FirstMatching(steps), parsed)
C20_FirstMatchFixesParse ==
    ret.kind = "parsed" => FirstMatchFixes(PatternSteps(call.message, ret.matches), ret.parsed)

(***************************************************************************)
(* C21.  When handle_update_section rejects a patch because the returned   *)
(* title is the title of another section, the number it reports is that    *)
(* section's number as the user addresses it: handle_show_section of the   *)
(* reported number on the same Document displays the section with the      *)
(* returned title.                                                         *)
(***************************************************************************)
\* the rejection names a section other than the pseudo-title at index 0
WrongSectionReported ==
    /\ call.op = "update"
    /\ ret.message.kind = "wrong_section"
    /\ ~(has_doc_title(call.before) /\ ret.message.number = 1)
ShowsReturnedTitle(shown, message) ==
    /\ shown.kind = "section"
    /\ Lower(shown.title) = Lower(message.title)
C21_ReportedNumberShowsTouchedSection ==
    WrongSectionReported
        => ShowsReturnedTitle(handle_show_section(call.before, ret.message.number),
                              ret.message)

(***************************************************************************)
(* C22.  handle_update_section parses the generation output with the       *)
(* repairs of convert_brd_text_to_json: every output that the extraction   *)
(* and the parse attempts of convert_brd_text_to_json turn into an object  *)
(* is parsed by handle_update_section too, and is not rejected with        *)
(* "Failed to parse JSON response from AI".                                *)
(***************************************************************************)
ResponseParsed == ret.kind = "patch"
PipelineGivesObject(converted) ==
    converted.structured.ok /\ converted.structured.kind = "object"
PatchRejectedAsUnparsed(parsed) == parsed.kind \in {"no_json", "bad_json"}
C22_PatchParsesWhatPipelineParses ==
    ResponseParsed
        => (PipelineGivesObject(convert_brd_text_to_json(call.raw_response))
              => ~PatchRejectedAsUnparsed(ret.parsed))

(***************************************************************************)
(* C23.  Within a section reconstructed by _convert_brd_text_to_structure  *)
(* or convert_brd_to_json the content blocks follow the order of the       *)
(* source lines: read block by block, the paragraph lines, bullet items    *)
(* and table rows are the non-blank body lines of the section in the       *)
(* order of the text (no paragraph after a bullet or row that followed it, *)
(* no block holding bullets or rows that paragraph text separated).        *)
(***************************************************************************)
Piece(type, value) == [type |-> type, value |-> value]
\* what a body line contributes to the content of its section
PieceOf(line) ==
    IF is_bullet(line) THEN Piece("bullet", LStrip(Tail(line)))
    ELSE IF HasChar(line, "|") THEN Piece("table", cells_of(line, "|"))
    ELSE Piece("paragraph", line)
RECURSIVE SourcePieces(_)
SourcePieces(body) ==
    IF Len(body) = 0 THEN <<>>
    ELSE IF Len(Strip(Head(body))) = 0 THEN SourcePieces(Tail(body))
    ELSE <<PieceOf(Strip(Head(body)))>> \o SourcePieces(Tail(body))
\* the pieces of one block, in the order the block holds them
BlockPieces(block) ==
    IF block.type = "paragraph"
    THEN [i \in 1..Len(SplitLines(block.text)) |-> Piece("paragraph", SplitLines(block.text)[i])]
    ELSE IF block.type = "bullet"
    THEN [i \in 1..Len(block.items) |-> Piece("bullet", block.items[i])]
    ELSE [i \in 1..Len(block.rows) |-> Piece("table", block.rows[i])]
RECURSIVE ContentPieces(_)
ContentPieces(content) ==
    IF Len(content) = 0 THEN <<>>
    ELSE BlockPieces(Head(content)) \o ContentPieces(Tail(content))
SectionReconstructed ==
    ret.kind = "reconstructed" /\ "body" \in DOMAIN call /\ Len(ret.sections) = 1
C23_BlocksInSourceOrder ==
    SectionReconstructed => ContentPieces(ret.sections[1].content) = SourcePieces(call.body)

(***************************************************************************)
(* C24.  The generation call made for a patch does not depend on the       *)
(* conversation history: calls of handle_update_section on the same        *)
(* Document, section number and instruction make the same generation call  *)
(* (the same prompt), and pass it an empty history, whatever history each  *)
(* was given.                                                              *)
(***************************************************************************)
UpdateCallsRecorded == ret.kind = "generation_calls"
SameGenerationCall(calls) ==
    \A i, j \in DOMAIN calls : calls[i].generation = calls[j].generation
EmptyHistoryPassed(calls) ==
    \A i \in DOMAIN calls : calls[i].generation.invoked => calls[i].generation.history = <<>>
C24_PatchCallIgnoresHistory ==
    UpdateCallsRecorded => SameGenerationCall(ret.calls) /\ EmptyHistoryPassed(ret.calls)
\* two calls given different histories, both reaching the generation client
C24_Witness ==
    /\ UpdateCallsRecorded
    /\ Len(ret.calls) = 2
    /\ ret.calls[1].conversation_history # ret.calls[2].conversation_history
    /\ Len(ret.calls[2].conversation_history) > 0
    /\ ret.calls[1].generation.invoked

(***************************************************************************)
(* C25.  An update confirmation enters the conversation log only after the *)
(* patched structure was saved in the same request: every assistant event  *)
(* a request appends that the context derivation reads as a confirmation   *)
(* comes from a request whose handle_update_section succeeded and whose    *)
(* save of the structure succeeded; a rejected patch or a failed save      *)
(* leaves no confirmation in the log.                                      *)
(***************************************************************************)
\* the events the last request appended to the log
AppendedEvents == SubSeq(log, Len(req.log_before) + 1, Len(log))
IsConfirmationEvent(e) == lower_role(e.role) = "assistant" /\ looks_like_confirmation(e.text)
ConfirmationAppended ==
    /\ req.kind = "send_message"
    /\ \E i \in DOMAIN AppendedEvents : IsConfirmationEvent(AppendedEvents[i])
PatchSaved ==
    /\ req.out.update_called
    /\ req.out.structure_saved
    /\ "put_structure" \in {req.out.asked[i] : i \in DOMAIN req.out.asked}
    /\ s3.structure.state = "ok"
C25_FailedSaveWitness ==
    /\ req.kind = "send_message"
    /\ req.out.update_called
    /\ "put_structure" \in {req.out.asked[i] : i \in DOMAIN req.out.asked}
    /\ ~req.out.structure_saved
    /\ ~ConfirmationAppended

(***************************************************************************)
(* C26.  Section numbering is the same in every user-facing operation: the *)
(* number handle_list_sections prints next to a section is the number      *)
(* under which handle_show_section displays that section and under which   *)
(* handle_update_section patches it, on every Document, also one with a    *)
(* pseudo-title at index 0.                                                *)
(***************************************************************************)
SectionsListed == call.op = "list" /\ ret.kind = "list"
\* handle_show_section of the listed number displays the section at position
ShowsListed(sections, position, number) ==
    LET shown == handle_show_section(sections, number) IN
    /\ shown.kind = "section"
    /\ shown.title = CleanTitle(sections[position].title)
    /\ shown.body = RenderBlocks(sections[position].content)
\* handle_update_section of the listed number, the model returning the title
\* of the section at position, patches that section and no other
PatchesListed(sections, position, number) ==
    LET result == handle_update_section(
                      sections, number, FALSE,
                      Gen("object", TRUE, TRUE, CleanTitle(sections[position].title),
                          NewContent))
    IN /\ result.success
       /\ result.updated_brd[position].content = NewContent
       /\ \A k \in DOMAIN sections : k # position => result.updated_brd[k] = sections[k]
C26_ListedNumberAddressesSection ==
    SectionsListed
        => \A i \in DOMAIN ret.lines :
               \* the pseudo-title itself is not asked to be addressable
               ~(has_doc_title(call.before) /\ i = 1)
                   => /\ ShowsListed(call.before, i, ret.lines[i].number)
                      /\ PatchesListed(call.before, i, ret.lines[i].number)

(***************************************************************************)
(* C27.  _convert_brd_text_to_structure applied to a text of headers       *)
(* "1. T1" .. "k. Tk", each followed by body lines, returns exactly k      *)
(* sections titled T1 .. Tk in that order, each holding its own body       *)
(* lines: no header and no body line is dropped or moved to another        *)
(* section.                                                                *)
(***************************************************************************)
HeadersReconstructed == ret.kind = "reconstructed" /\ "titles" \in DOMAIN call
RECURSIVE HeldLines(_)
HeldLines(content) ==
    IF Len(content) = 0 THEN <<>>
    ELSE (IF Head(content).type = "paragraph" THEN SplitLines(Head(content).text) ELSE <<>>)
             \o HeldLines(Tail(content))
C27_EveryHeaderStartsItsSection ==
    HeadersReconstructed =>
        /\ Len(ret.sections) = Len(call.titles)
        /\ \A i \in 1..Len(call.titles) :
               i <= Len(ret.sections)
                   => /\ ret.sections[i].title = call.titles[i]
                      /\ HeldLines(ret.sections[i].content) = call.bodies[i]

(***************************************************************************)
(* C28.  Rebuilding a Document from its own plain-text rendering keeps the *)
(* section addressing: for every section number n valid on the Document,   *)
(* handle_show_section(n) on create_minimal_structure_from_text(           *)
(* render_brd_to_text(D)) displays the title handle_show_section(n)        *)
(* displays on D, with or without a pseudo-title at index 0.               *)
(***************************************************************************)
RoundTripped == ret.kind = "round_trip" /\ ret.shown.kind = "section"
C28_RoundTripKeepsAddressing ==
    RoundTripped => ret.reshown.kind = "section" /\ ret.reshown.title = ret.shown.title

(***************************************************************************)
(* C29.  handle_update_section commits a patch whatever the instruction    *)
(* text: when the section number is valid and the generation client        *)
(* answers with a well-formed {title, content} object whose title matches  *)
(* the expected one, the call succeeds, also when the instruction selects  *)
(* the full-content prompt branch.                                         *)
(***************************************************************************)
\* the answer the client gave is a matching patch; a client that was never
\* asked withheld none
MatchingPatchOffered ==
    \/ call.gen.kind = "not_invoked"
    \/ /\ call.gen.kind = "object" /\ call.gen.has_title /\ call.gen.has_content
       /\ titles_match(Lower(CleanTitle(call.gen.title)),
                       Lower(CleanTitle(call.before[PositionOf(call.before, call.n)].title)))
ValidUpdateCalled == call.op = "update" /\ ValidNumber(call.before, call.n)
C29_PatchCommitsForAnyInstruction ==
    (ValidUpdateCalled /\ MatchingPatchOffered) => ret.success /\ ret.has_updated_brd

(***************************************************************************)
(* C30.  When two send_message requests patch the same document at the     *)
(* same time, once both have completed with all their saves done the       *)
(* stored plain text is render_brd_to_text of the stored structure: the    *)
(* two stored objects derive from the same Document under every            *)
(* interleaving of the two save steps.                                     *)
(***************************************************************************)
TextOfStoredStructure ==
    /\ s3.structure.state = "ok" /\ s3.text.state = "ok"
    /\ s3.text.text = render_brd_to_text(s3.structure.sections)
C30_StoredTextMatchesStructure == BothWritten => TextOfStoredStructure
====
